---- MODULE Spec2Model ----
(***************************************************************************)
(* Budget tracker: the budget accounting engine (BudgetCalculator), the    *)
(* calendar utility (MonthNavigation) and the synchronization orchestrator *)
(* (HomeScreen.loadData) with the offline cache (StorageService).          *)
(*                                                                         *)
(* Conventions of the model                                                *)
(*  - A month key "YYYY-MM" is the record [year |-> digits, month |->       *)
(*    digits]: the two strings that split('-') yields, each a sequence of  *)
(*    decimal digits.  String equality is record equality.                 *)
(*  - Money is counted in cents (integers); binary floating point rounding *)
(*    of the JavaScript numbers is not modelled.                           *)
(*  - An instant (Date.getTime()) is a number of ticks; every calendar     *)
(*    month lasts TicksPerMonth ticks, so tick 0 of a month is its first   *)
(*    instant and tick TicksPerMonth - 1 its last one.  A transaction's    *)
(*    timestamp field holds the instant that new Date(timestamp) denotes   *)
(*    in the device's time zone.                                           *)
(***************************************************************************)
EXTENDS Integers, Sequences, FiniteSets

\* ------------------------------------------------------------------ bounds

TicksPerMonth == 2
MaxTransactions == 2
MaxBudgets == 3

\* ------------------------------------------------- strings of decimal digits

RECURSIVE ParseInt(_)
\* parseInt(s) of a string of decimal digits (leading zeros allowed)
ParseInt(s) ==
    IF Len(s) = 0 THEN 0
    ELSE 10 * ParseInt(SubSeq(s, 1, Len(s) - 1)) + s[Len(s)]

RECURSIVE ToString(_)
\* n.toString() / `${n}` of a natural number: no padding
ToString(n) ==
    IF n < 10 THEN <<n>> ELSE ToString(n \div 10) \o <<n % 10>>

\* s.padStart(2, '0')
PadStart2(s) == IF Len(s) < 2 THEN <<0>> \o s ELSE s

\* the month key `${year}-${month}` of two strings of digits
MonthKey(year, month) == [year |-> year, month |-> month]

\* ------------------------------------------------- strings of characters
\*
\* A text the user types or the service stores ("50.00") is a sequence of
\* one-character strings.  A number read from a text is counted in
\* thousandths, so that a third fractional digit is not lost; money is in
\* cents everywhere else.

DigitChars == <<"0", "1", "2", "3", "4", "5", "6", "7", "8", "9">>

IsDigit(c) == \E i \in 1..10 : DigitChars[i] = c

DigitValue(c) == (CHOOSE i \in 1..10 : DigitChars[i] = c) - 1

RECURSIVE TakeDigits(_)
\* the longest prefix of decimal digits
TakeDigits(text) ==
    IF Len(text) = 0 \/ ~IsDigit(text[1]) THEN <<>>
    ELSE <<text[1]>> \o TakeDigits(Tail(text))

RECURSIVE DigitsValue(_)
\* the natural number a string of decimal digits denotes
DigitsValue(digits) ==
    IF Len(digits) = 0 THEN 0
    ELSE 10 * DigitsValue(SubSeq(digits, 1, Len(digits) - 1))
         + DigitValue(digits[Len(digits)])

\* parseFloat(text) of a text without sign, exponent or leading blank: the
\* longest prefix of the form digits[.digits] is read, NaN (Null here) when
\* that prefix holds no digit.  The value is in thousandths; fractional
\* digits after the third are dropped.
ParseFloat(text) ==
    LET whole == TakeDigits(text)
        rest == SubSeq(text, Len(whole) + 1, Len(text))
        fraction == IF Len(rest) > 0 /\ rest[1] = "."
                    THEN TakeDigits(Tail(rest)) ELSE <<>>
        thousandths == SubSeq(fraction \o <<"0", "0", "0">>, 1, 3)
    IN  IF Len(whole) = 0 /\ Len(fraction) = 0 THEN <<>>
        ELSE <<1000 * DigitsValue(whole) + DigitsValue(thousandths)>>

\* a number of thousandths as an amount in cents (exact for a number with
\* at most two fractional digits)
Cents(thousandths) == thousandths \div 10

RECURSIVE NumberText(_)
\* n.toString() of a natural number, as characters
NumberText(n) ==
    IF n < 10 THEN <<DigitChars[n + 1]>>
    ELSE NumberText(n \div 10) \o <<DigitChars[(n % 10) + 1]>>

\* x.toFixed(2) of an amount of money (cents): all the digits of the whole
\* part, the point and two fractional digits
ToFixed2(cents) ==
    NumberText(cents \div 100)
        \o <<".", DigitChars[((cents \div 10) % 10) + 1], DigitChars[(cents % 10) + 1]>>

RECURSIVE TrimStart(_)
\* the text without its leading blanks
TrimStart(text) ==
    IF Len(text) > 0 /\ text[1] = " " THEN TrimStart(Tail(text)) ELSE text

RECURSIVE TrimEnd(_)
\* the text without its trailing blanks
TrimEnd(text) ==
    IF Len(text) > 0 /\ text[Len(text)] = " "
    THEN TrimEnd(SubSeq(text, 1, Len(text) - 1)) ELSE text

\* text.trim()
Trim(text) == TrimEnd(TrimStart(text))

\* text.replace(/[^0-9.]/g, '')
Cleaned(text) == SelectSeq(text, LAMBDA c : IsDigit(c) \/ c = ".")

\* the positions of the decimal points of a text
Points(text) == {i \in 1..Len(text) : text[i] = "."}

\* text.split('.')[0]: the text before its first point, all of it without one
BeforePoint(text) ==
    IF Points(text) = {} THEN text
    ELSE SubSeq(text, 1, (CHOOSE i \in Points(text) : \A j \in Points(text) : i <= j) - 1)

\* the text after its first point
AfterPoint(text) == SubSeq(text, Len(BeforePoint(text)) + 2, Len(text))

\* text.split('.')[1] || '': the text between its first and its second point
SecondPart(text) == BeforePoint(AfterPoint(text))

\* formatAmount(text) of the two forms: what the amount field keeps of what
\* was typed.  With more than one point the parts after the first are joined
\* and are not limited to two digits.
FormatAmount(text) ==
    LET cleaned == Cleaned(text)
        parts == Cardinality(Points(cleaned)) + 1
    IN  IF parts > 2
        THEN BeforePoint(cleaned) \o <<".">>
                 \o SelectSeq(AfterPoint(cleaned), LAMBDA c : c # ".")
        ELSE IF parts = 2 /\ Len(AfterPoint(cleaned)) > 2
        THEN BeforePoint(cleaned) \o <<".">> \o SubSeq(AfterPoint(cleaned), 1, 2)
        ELSE cleaned

\* formatAmountForDisplay(value), applied to the amount field on blur, for a
\* value with at most two fractional digits
FormatAmountForDisplay(value) ==
    IF value = <<>> THEN <<>>
    ELSE IF ParseFloat(value) = <<>> THEN value
    ELSE ToFixed2(Cents(ParseFloat(value)[1]))

\* ------------------------------------------------------------ the calendar

\* new Date(year, monthIndex, 1).getTime(): monthIndex 12 rolls into the
\* next year, as the Date constructor normalises it
NewDate(year, monthIndex) == (year * 12 + monthIndex) * TicksPerMonth

\* date.getFullYear() and date.getMonth() of an instant
GetFullYear(instant) == (instant \div TicksPerMonth) \div 12
GetMonth(instant) == (instant \div TicksPerMonth) % 12

\* BudgetCalculator.getPreviousMonth
CalcGetPreviousMonth(monthYear) ==
    LET yearNum == ParseInt(monthYear.year)
        monthNum == ParseInt(monthYear.month)
    IN  IF monthNum = 1
        THEN MonthKey(ToString(yearNum - 1), <<1, 2>>)
        ELSE MonthKey(monthYear.year, PadStart2(ToString(monthNum - 1)))

\* getNextMonth without the roll into the next year
CalcGetNextMonth_SameYear(monthYear) ==
    LET monthNum == ParseInt(monthYear.month)
    IN  MonthKey(monthYear.year, PadStart2(ToString((monthNum % 12) + 1)))

\* BudgetCalculator.getNextMonth
CalcGetNextMonth(monthYear) ==
    LET yearNum == ParseInt(monthYear.year)
        monthNum == ParseInt(monthYear.month)
    IN  IF monthNum = 12
        THEN MonthKey(ToString(yearNum + 1), <<0, 1>>)
        ELSE MonthKey(monthYear.year, PadStart2(ToString(monthNum + 1)))

\* MonthNavigation.getPreviousMonth
NavGetPreviousMonth(monthYear) ==
    LET yearNum == ParseInt(monthYear.year)
        monthNum == ParseInt(monthYear.month)
    IN  IF monthNum = 1
        THEN MonthKey(ToString(yearNum - 1), <<1, 2>>)
        ELSE MonthKey(monthYear.year, PadStart2(ToString(monthNum - 1)))

\* MonthNavigation.getNextMonth
NavGetNextMonth(monthYear) ==
    LET yearNum == ParseInt(monthYear.year)
        monthNum == ParseInt(monthYear.month)
    IN  IF monthNum = 12
        THEN MonthKey(ToString(yearNum + 1), <<0, 1>>)
        ELSE MonthKey(monthYear.year, PadStart2(ToString(monthNum + 1)))

\* ------------------------------------------------------------- the engine

\* budgets.find(b => b.month_year === monthYear): the index of the first
\* match, 0 when there is none (undefined)
FindBudget(budgets, monthYear) ==
    LET hits == {i \in 1..Len(budgets) : budgets[i].month_year = monthYear}
    IN  IF hits = {} THEN 0 ELSE CHOOSE i \in hits : \A j \in hits : i <= j

\* mutant: the month's interval closed at its end (<= endDate)
GetTransactionsForMonth_InclusiveEnd(transactions, monthYear) ==
    LET startDate == NewDate(ParseInt(monthYear.year), ParseInt(monthYear.month) - 1)
        endDate == NewDate(ParseInt(monthYear.year), ParseInt(monthYear.month))
        isInRange(t) == t.timestamp >= startDate /\ t.timestamp <= endDate
    IN  SelectSeq(transactions, isInRange)

\* BudgetCalculator.getTransactionsForMonth
GetTransactionsForMonth(transactions, monthYear) ==
    LET startDate == NewDate(ParseInt(monthYear.year), ParseInt(monthYear.month) - 1)
        endDate == NewDate(ParseInt(monthYear.year), ParseInt(monthYear.month))
        isInRange(t) == t.timestamp >= startDate /\ t.timestamp < endDate
    IN  SelectSeq(transactions, isInRange)

\* mutant: a deposit is added to the spend like a withdrawal
SignedAmount_DepositAdds(transaction) == transaction.amount

\* the reducer (total, transaction) => ... shared by the two reduce calls
SignedAmount(transaction) ==
    IF transaction.type = "withdraw" THEN transaction.amount
    ELSE IF transaction.type = "deposit" THEN 0 - transaction.amount
    ELSE 0

RECURSIVE Reduce(_, _)
\* seq.reduce((total, t) => total + SignedAmount(t), total)
Reduce(seq, total) ==
    IF Len(seq) = 0 THEN total
    ELSE Reduce(Tail(seq), total + SignedAmount(Head(seq)))

\* mutant: the total of all transactions, whatever their month
CalculateTotalForMonth_AllMonths(transactions, monthYear) ==
    Reduce(transactions, 0)

\* BudgetCalculator.calculateTotalForMonth
CalculateTotalForMonth(transactions, monthYear) ==
    Reduce(GetTransactionsForMonth(transactions, monthYear), 0)

RECURSIVE CalculateRolloverAmount_ZeroWhenDisabled(_, _, _)
\* mutant: "if no previous budget or rollover disabled, no rollover"
CalculateRolloverAmount_ZeroWhenDisabled(transactions, budgets, currentMonth) ==
    LET previousMonth == CalcGetPreviousMonth(currentMonth)
        found == FindBudget(budgets, previousMonth)
    IN  IF found = 0 THEN 0
        ELSE IF ~budgets[found].rollover_enabled THEN 0
        ELSE budgets[found].budget_amount
             + CalculateRolloverAmount_ZeroWhenDisabled(transactions, budgets, previousMonth)
             - Reduce(GetTransactionsForMonth(transactions, previousMonth), 0)

RECURSIVE CalculateRolloverAmount_IgnoresFlag(_, _, _)
\* mutant: the recursion does not stop at a month with rollover disabled
CalculateRolloverAmount_IgnoresFlag(transactions, budgets, currentMonth) ==
    LET previousMonth == CalcGetPreviousMonth(currentMonth)
        found == FindBudget(budgets, previousMonth)
    IN  IF found = 0 THEN 0
        ELSE budgets[found].budget_amount
             + CalculateRolloverAmount_IgnoresFlag(transactions, budgets, previousMonth)
             - Reduce(GetTransactionsForMonth(transactions, previousMonth), 0)

\* mutant: the previous month's own carry-in is left out (no recursion)
CalculateRolloverAmount_OneLevel(transactions, budgets, currentMonth) ==
    LET previousMonth == CalcGetPreviousMonth(currentMonth)
        found == FindBudget(budgets, previousMonth)
    IN  IF found = 0 THEN 0
        ELSE budgets[found].budget_amount
             - Reduce(GetTransactionsForMonth(transactions, previousMonth), 0)

RECURSIVE CalculateRolloverAmountCalls(_, _)
\* how many times calculateRolloverAmount(_, budgets, currentMonth) calls
\* itself before it returns (line 183): the depth of the recursion
CalculateRolloverAmountCalls(budgets, currentMonth) ==
    LET previousMonth == CalcGetPreviousMonth(currentMonth)
        found == FindBudget(budgets, previousMonth)
    IN  IF found = 0 THEN 0
        ELSE IF budgets[found].rollover_enabled
        THEN 1 + CalculateRolloverAmountCalls(budgets, previousMonth)
        ELSE 0

RECURSIVE CalculateRolloverAmount(_, _, _)
\* BudgetCalculator.calculateRolloverAmount
CalculateRolloverAmount(transactions, budgets, currentMonth) ==
    LET previousMonth == CalcGetPreviousMonth(currentMonth)
        found == FindBudget(budgets, previousMonth)
    IN  IF found = 0 THEN 0
        ELSE LET prevBudget == budgets[found]
                 rolloverAmount ==
                     IF prevBudget.rollover_enabled
                     THEN CalculateRolloverAmount(transactions, budgets, previousMonth)
                     ELSE 0
                 prevMonthSumTransactions ==
                     Reduce(GetTransactionsForMonth(transactions, previousMonth), 0)
             IN  prevBudget.budget_amount + rolloverAmount - prevMonthSumTransactions

\* mutant: with rollover disabled the stored amount is kept
ResolveBudget_StoredWhenDisabled(monthYear, transactions, budgets, defaultBudgetAmount) ==
    LET found == FindBudget(budgets, monthYear)
        rolled == defaultBudgetAmount
                  + CalculateRolloverAmount(transactions, budgets, monthYear)
    IN  IF found = 0
        THEN [month_year |-> monthYear, budget_amount |-> rolled,
              rollover_enabled |-> TRUE]
        ELSE IF budgets[found].rollover_enabled
        THEN [budgets[found] EXCEPT !.budget_amount = rolled]
        ELSE budgets[found]

\* mutant: the carry-in is added whatever the rollover setting
ResolveBudget_AlwaysRollover(monthYear, transactions, budgets, defaultBudgetAmount) ==
    LET found == FindBudget(budgets, monthYear)
        rolled == defaultBudgetAmount
                  + CalculateRolloverAmount(transactions, budgets, monthYear)
    IN  IF found = 0
        THEN [month_year |-> monthYear, budget_amount |-> rolled,
              rollover_enabled |-> TRUE]
        ELSE [budgets[found] EXCEPT !.budget_amount = rolled]

\* the budget that calculateBudgetSummary resolves for monthYear
ResolveBudget(monthYear, transactions, budgets, defaultBudgetAmount) ==
    LET found == FindBudget(budgets, monthYear)
    IN  IF found = 0
        THEN [month_year |-> monthYear,
              budget_amount |-> defaultBudgetAmount
                  + CalculateRolloverAmount(transactions, budgets, monthYear),
              rollover_enabled |-> TRUE]
        ELSE IF budgets[found].rollover_enabled
        THEN [budgets[found] EXCEPT !.budget_amount = defaultBudgetAmount
                  + CalculateRolloverAmount(transactions, budgets, monthYear)]
        ELSE [budgets[found] EXCEPT !.budget_amount = defaultBudgetAmount]

\* mutant: a remaining balance of exactly 0 counts as over budget
IsOverBudget_Inclusive(remainingBudget) == remainingBudget <= 0

\* remainingBudget < 0
IsOverBudget(remainingBudget) == remainingBudget < 0

\* BudgetCalculator.calculateBudgetSummary
CalculateBudgetSummary(monthYear, transactions, budgets, defaultBudgetAmount) ==
    LET budget == ResolveBudget(monthYear, transactions, budgets, defaultBudgetAmount)
        totalTransactions == CalculateTotalForMonth(transactions, monthYear)
        remainingBudget == budget.budget_amount - totalTransactions
    IN  [month_year |-> monthYear,
         budget_amount |-> budget.budget_amount,
         total_transactions |-> totalTransactions,
         remaining_budget |-> remainingBudget,
         is_over_budget |-> IsOverBudget(remainingBudget),
         rollover_enabled |-> budget.rollover_enabled]

\* mutant: the rollover setting of the month's records is inverted
UpdatedBudgets_Inverted(budgets, monthYear, newRolloverEnabled) ==
    [i \in 1..Len(budgets) |->
        IF budgets[i].month_year = monthYear
        THEN [budgets[i] EXCEPT !.rollover_enabled = ~budgets[i].rollover_enabled]
        ELSE budgets[i]]

\* budgets.map(budget => budget.month_year === monthYear
\*     ? { ...budget, rollover_enabled: newRolloverEnabled } : budget):
\* a new array; the records of monthYear are copies with the flag replaced
UpdatedBudgets(budgets, monthYear, newRolloverEnabled) ==
    [i \in 1..Len(budgets) |->
        IF budgets[i].month_year = monthYear
        THEN [budgets[i] EXCEPT !.rollover_enabled = newRolloverEnabled]
        ELSE budgets[i]]

\* BudgetCalculator.recalculateWithRolloverChange
RecalculateWithRolloverChange(monthYear, txs, budgets, newRolloverEnabled, defaultBudgetAmount) ==
    CalculateBudgetSummary(monthYear, txs,
        UpdatedBudgets(budgets, monthYear, newRolloverEnabled),
        defaultBudgetAmount)

\* MonthNavigation.getFirstTrackedMonth: the month of the first element of
\* the stably sorted copy, or the month of Date.now() for an empty array
RECURSIVE InsertByTimestamp(_, _)
InsertByTimestamp(sorted, t) ==
    IF Len(sorted) = 0 THEN <<t>>
    ELSE IF t.timestamp < Head(sorted).timestamp THEN <<t>> \o sorted
    ELSE <<Head(sorted)>> \o InsertByTimestamp(Tail(sorted), t)

RECURSIVE SortByTimestamp(_)
\* [...transactions].sort((a, b) => getTime(a) - getTime(b)), a stable sort
SortByTimestamp(transactions) ==
    IF Len(transactions) = 0 THEN <<>>
    ELSE InsertByTimestamp(
             SortByTimestamp(SubSeq(transactions, 1, Len(transactions) - 1)),
             transactions[Len(transactions)])

\* mutant: the first element of the array as given, without sorting
GetFirstTrackedMonth_Unsorted(transactions, now) ==
    LET date == IF Len(transactions) > 0 THEN transactions[1].timestamp ELSE now
    IN  MonthKey(ToString(GetFullYear(date)), PadStart2(ToString(GetMonth(date) + 1)))

GetFirstTrackedMonth(transactions, now) ==
    LET date == IF Len(transactions) > 0
                THEN SortByTimestamp(transactions)[1].timestamp
                ELSE now
    IN  MonthKey(ToString(GetFullYear(date)), PadStart2(ToString(GetMonth(date) + 1)))

\* ------------------------------------------------- inputs of the engine

\* the month keys "2025-11", "2025-12", "2026-01" that budget records and
\* transactions of the engine's inputs fall in, and "2026-02" after them
Nov25 == MonthKey(<<2, 0, 2, 5>>, <<1, 1>>)
Dec25 == MonthKey(<<2, 0, 2, 5>>, <<1, 2>>)
Jan26 == MonthKey(<<2, 0, 2, 6>>, <<0, 1>>)
Feb26 == MonthKey(<<2, 0, 2, 6>>, <<0, 2>>)
RecordMonths == {Nov25, Dec25, Jan26}
TargetMonths == RecordMonths \cup {Feb26}

\* the first and the last instant of a month
FirstInstant(monthYear) ==
    NewDate(ParseInt(monthYear.year), ParseInt(monthYear.month) - 1)
LastInstant(monthYear) == FirstInstant(monthYear) + TicksPerMonth - 1

Transaction(id, amount, type, timestamp) ==
    [id |-> id, amount |-> amount, type |-> type, timestamp |-> timestamp]

MonthlyBudget(monthYear, amount, rollover) ==
    [month_year |-> monthYear, budget_amount |-> amount, rollover_enabled |-> rollover]

\* amounts in cents: 20.00, 50.00, 800.00, 1300.00 (the budget is 1000.00);
\* timestamps on both sides of the November/December boundary and at the
\* first instant of the new year
TransactionPool ==
    {Transaction(0, 5000, "withdraw", FirstInstant(Dec25)),
     Transaction(0, 2000, "deposit", FirstInstant(Dec25)),
     Transaction(0, 5000, "withdraw", FirstInstant(Jan26)),
     Transaction(0, 80000, "withdraw", LastInstant(Nov25)),
     Transaction(0, 130000, "withdraw", FirstInstant(Dec25))}

BudgetPool ==
    {MonthlyBudget(m, 100000, r) : m \in RecordMonths, r \in BOOLEAN}

\* default budget amounts: 49.99 and 50.00
DefaultAmounts == {4999, 5000}

SeqsUpTo(S, n) == UNION {[1..k -> S] : k \in 0..n}

VARIABLES engTransactions, engBudgets, engCall

engVars == <<engTransactions, engBudgets, engCall>>

\* the state of the application (the orchestrator below); the engine's calls
\* leave it alone
VARIABLES
    remoteTransactions,   \* the service's transactions
    remoteBudgets,        \* the service's monthly budgets, one per month
    remoteSettings,       \* the service's settings
    storageTransactions,  \* AsyncStorage item 'transactions' (optional)
    storageMonthlyBudgets,\* AsyncStorage item 'monthly_budgets' (optional)
    storageLastSync,      \* AsyncStorage item 'last_sync' (optional)
    storageCurrentMonth,  \* AsyncStorage item 'current_month' (optional)
    currentMonth,         \* App: currentMonth
    transactions,         \* HomeScreen state
    budgetSummary,        \* HomeScreen state (optional)
    monthlyBudgets,       \* HomeScreen state
    firstTrackedMonth,    \* HomeScreen state (optional)
    isLoading,            \* HomeScreen state
    isRefreshing,         \* HomeScreen state
    snackbarVisible,      \* HomeScreen state
    snackbarMessage,      \* HomeScreen state
    isRolloverDisabled,   \* HomeScreen state
    loadDataClosure,      \* what the current loadData callback captured
    loads,                \* the loadData calls in flight
    loadCallsLeft,        \* how many more loadData calls the session is followed for
    faultsLeft,           \* how many more requests and cache operations may fail
    pendingMonthChange,   \* the month of an App.handleMonthChange call in flight (optional)
    lastMutation,         \* what the last form submission or mutation did (history)
    mutationsLeft,        \* how many more form submissions the session is followed for
    lastLoad              \* the last loadData call that returned (history)

remoteVars == <<remoteTransactions, remoteBudgets, remoteSettings>>
storageVars == <<storageTransactions, storageMonthlyBudgets, storageLastSync,
                 storageCurrentMonth>>
screenVars == <<transactions, budgetSummary, monthlyBudgets, firstTrackedMonth,
                isLoading, isRefreshing, snackbarVisible, snackbarMessage,
                isRolloverDisabled>>
appVars == <<remoteVars, storageVars, currentMonth, screenVars, loadDataClosure,
             loads, loadCallsLeft, faultsLeft, lastLoad, pendingMonthChange, lastMutation,
             mutationsLeft>>

\* the Default Budget settings screen (DefaultBudgetSettingsScreen) and the
\* item of the cache it writes; the home screen and the engine leave them
\* alone
VARIABLES
    storageSettings,      \* AsyncStorage item 'settings' (optional)
    settingsScreen,       \* the screen: mounted, its state and its initTextInput call
    updateCall,           \* the updateDefaultBudget call in flight
    settingsVisitsLeft,   \* how many more times the screen is opened
    lastUpdate            \* the last updateDefaultBudget call that returned (history)

settingsVars == <<storageSettings, settingsScreen, updateCall, settingsVisitsLeft,
                  lastUpdate>>

vars == <<engVars, appVars, settingsVars>>

sessionVars == <<pendingMonthChange, lastMutation, mutationsLeft>>

\* everything of the application but lastMutation, mutationsLeft, faultsLeft
appVarsButMutation == <<remoteVars, storageVars, currentMonth, screenVars,
                        loadDataClosure, loads, loadCallsLeft, lastLoad,
                        pendingMonthChange>>

\* no form was submitted and no mutation was asked for yet
NoMutation == [flow |-> "none"]

NoCall == [op |-> "none"]

EngInit ==
    /\ engTransactions \in SeqsUpTo(TransactionPool, MaxTransactions)
    /\ engBudgets \in SeqsUpTo(BudgetPool, MaxBudgets)
    /\ engCall = NoCall

\* one call of the engine on the drawn inputs; the inputs are not modified.
\* The two operations that take no budgets are called on the inputs drawn
\* with an empty budgets collection.
CallGetTransactionsForMonth(monthYear) ==
    /\ engCall = NoCall
    /\ engBudgets = <<>>
    /\ engCall' = [op |-> "getTransactionsForMonth", monthYear |-> monthYear,
                   result |-> GetTransactionsForMonth(engTransactions, monthYear)]
    /\ UNCHANGED <<engTransactions, engBudgets, appVars, settingsVars>>

CallCalculateTotalForMonth(monthYear) ==
    /\ engCall = NoCall
    /\ engBudgets = <<>>
    /\ engCall' = [op |-> "calculateTotalForMonth", monthYear |-> monthYear,
                   result |-> CalculateTotalForMonth(engTransactions, monthYear)]
    /\ UNCHANGED <<engTransactions, engBudgets, appVars, settingsVars>>

CallCalculateRolloverAmount(monthYear) ==
    /\ engCall = NoCall
    /\ engCall' = [op |-> "calculateRolloverAmount", monthYear |-> monthYear,
                   result |-> CalculateRolloverAmount(engTransactions, engBudgets, monthYear),
                   calls |-> CalculateRolloverAmountCalls(engBudgets, monthYear)]
    /\ UNCHANGED <<engTransactions, engBudgets, appVars, settingsVars>>

CallCalculateBudgetSummary(monthYear, defaultBudgetAmount) ==
    /\ engCall = NoCall
    /\ engCall' = [op |-> "calculateBudgetSummary", monthYear |-> monthYear,
                   defaultBudgetAmount |-> defaultBudgetAmount,
                   result |-> CalculateBudgetSummary(monthYear, engTransactions,
                                                     engBudgets, defaultBudgetAmount)]
    /\ UNCHANGED <<engTransactions, engBudgets, appVars, settingsVars>>

\* the month keys the calendar functions are called on: every month of the
\* first and of the last year written with four digits and no leading zero,
\* of a year that ends a millennium and of the year before the session's
CalendarYears == {<<1, 0, 0, 0>>, <<1, 9, 9, 9>>, <<2, 0, 2, 5>>, <<9, 9, 9, 9>>}
CalendarKeys ==
    {MonthKey(y, PadStart2(ToString(m))) : y \in CalendarYears, m \in 1..12}

\* getPreviousMonth of both classes on one key
CallGetPreviousMonth(monthYear) ==
    /\ engCall = NoCall
    /\ engTransactions = <<>>
    /\ engBudgets = <<>>
    /\ engCall' = [op |-> "getPreviousMonth", monthYear |-> monthYear,
                   result |-> CalcGetPreviousMonth(monthYear),
                   navResult |-> NavGetPreviousMonth(monthYear)]
    /\ UNCHANGED <<engTransactions, engBudgets, appVars, settingsVars>>

\* getNextMonth of both classes on one key
CallGetNextMonth(monthYear) ==
    /\ engCall = NoCall
    /\ engTransactions = <<>>
    /\ engBudgets = <<>>
    /\ engCall' = [op |-> "getNextMonth", monthYear |-> monthYear,
                   result |-> CalcGetNextMonth(monthYear),
                   navResult |-> NavGetNextMonth(monthYear)]
    /\ UNCHANGED <<engTransactions, engBudgets, appVars, settingsVars>>

\* recalculateWithRolloverChange on the drawn inputs; budgets is the
\* caller's array as it is when the call returns, updatedBudgets the array
\* the summary was computed from
CallRecalculateWithRolloverChange(monthYear, newRolloverEnabled, defaultBudgetAmount) ==
    /\ engCall = NoCall
    /\ engCall' = [op |-> "recalculateWithRolloverChange", monthYear |-> monthYear,
                   newRolloverEnabled |-> newRolloverEnabled,
                   defaultBudgetAmount |-> defaultBudgetAmount,
                   budgets |-> engBudgets,
                   updatedBudgets |-> UpdatedBudgets(engBudgets, monthYear,
                                                     newRolloverEnabled),
                   result |-> RecalculateWithRolloverChange(monthYear, engTransactions,
                                  engBudgets, newRolloverEnabled, defaultBudgetAmount)]
    /\ UNCHANGED <<engTransactions, engBudgets, appVars, settingsVars>>

\* the instants Date.now() may return when the engine is called
NowInstants == {LastInstant(Jan26), FirstInstant(Feb26)}

\* getFirstTrackedMonth on the drawn transactions, Date.now() returning now;
\* transactions is the caller's array as it is when the call returns (the
\* sort is applied to a copy, [...transactions])
CallGetFirstTrackedMonth(now) ==
    /\ engCall = NoCall
    /\ engBudgets = <<>>
    /\ engCall' = [op |-> "getFirstTrackedMonth", now |-> now,
                   transactions |-> engTransactions,
                   result |-> GetFirstTrackedMonth(engTransactions, now)]
    /\ UNCHANGED <<engTransactions, engBudgets, appVars, settingsVars>>

\* a "YYYY-MM" string as its characters, each as its distance from '0'
\* ('-' is three code units below '0')
MonthString(monthYear) == monthYear.year \o <<0 - 3>> \o monthYear.month

\* s < t on strings: by code units, a proper prefix first
RECURSIVE StringLess(_, _)
StringLess(s, t) ==
    IF Len(t) = 0 THEN FALSE
    ELSE IF Len(s) = 0 THEN TRUE
    ELSE IF s[1] # t[1] THEN s[1] < t[1]
    ELSE StringLess(Tail(s), Tail(t))

\* MonthNavigation.getCurrentMonth (part_005 lines 51-56), Date.now()
\* returning now
GetCurrentMonthAt(now) ==
    MonthKey(ToString(GetFullYear(now)), PadStart2(ToString(GetMonth(now) + 1)))

\* mutant: the previous button does not look at firstTrackedMonth
CanGoToPrevious_Always(shownMonth, firstTracked) == TRUE

\* MonthNavigator, canGoToPrevious (TransactionList.tsx line 383), the prop
\* canGoPrevious being true; firstTracked is the optional prop
\* firstTrackedMonth, shownMonth the prop currentMonth
CanGoToPrevious(shownMonth, firstTracked) ==
    IF firstTracked = <<>> THEN TRUE
    ELSE StringLess(MonthString(firstTracked[1]), MonthString(shownMonth))

\* MonthNavigator, canGoToNext (lines 386-387), the prop canGoNext being true
CanGoToNext(shownMonth, currentMonthStr) ==
    StringLess(MonthString(shownMonth), MonthString(currentMonthStr))

\* what the user does on the navigator: the two buttons, a horizontal swipe
\* beyond the threshold to the right or to the left, a shorter swipe, and
\* the "Back to Current Month" link, which is rendered on other months only
NavigatorGestures ==
    {"previous", "next", "swipeRight", "swipeLeft", "swipeShort", "backToCurrent"}

\* the month MonthNavigator passes to onMonthChange (lines 390-431), none
\* when the gesture is refused
NavigatorRequest(gesture, shownMonth, firstTracked, now) ==
    LET canGoToPrevious == CanGoToPrevious(shownMonth, firstTracked)
        canGoToNext == CanGoToNext(shownMonth, GetCurrentMonthAt(now))
        handlePreviousMonth ==
            IF canGoToPrevious THEN <<NavGetPreviousMonth(shownMonth)>> ELSE <<>>
        handleNextMonth ==
            IF canGoToNext THEN <<NavGetNextMonth(shownMonth)>> ELSE <<>>
    IN  CASE gesture = "previous" -> handlePreviousMonth
          [] gesture = "next" -> handleNextMonth
          [] gesture = "swipeRight" ->
                 IF canGoToPrevious THEN handlePreviousMonth ELSE <<>>
          [] gesture = "swipeLeft" ->
                 IF canGoToNext THEN handleNextMonth ELSE <<>>
          [] gesture = "swipeShort" -> <<>>
          [] gesture = "backToCurrent" ->
                 IF shownMonth # GetCurrentMonthAt(now)
                 THEN <<GetCurrentMonthAt(now)>> ELSE <<>>

\* the values of the prop firstTrackedMonth: null or a month
FirstTrackedMonths == {<<>>} \cup {<<m>> : m \in TargetMonths}

\* a gesture on the navigator showing the month shownMonth
CallMonthNavigator(gesture, shownMonth, firstTracked, now) ==
    /\ engCall = NoCall
    /\ engTransactions = <<>>
    /\ engBudgets = <<>>
    /\ engCall' = [op |-> "monthNavigator", gesture |-> gesture,
                   currentMonth |-> shownMonth,
                   firstTrackedMonth |-> firstTracked, now |-> now,
                   request |-> NavigatorRequest(gesture, shownMonth,
                                                firstTracked, now)]
    /\ UNCHANGED <<engTransactions, engBudgets, appVars, settingsVars>>

EngNext ==
    \/ \E m \in CalendarKeys : CallGetPreviousMonth(m)
    \/ \E m \in CalendarKeys : CallGetNextMonth(m)
    \/ \E m \in TargetMonths : CallGetTransactionsForMonth(m)
    \/ \E m \in TargetMonths : CallCalculateTotalForMonth(m)
    \/ \E m \in TargetMonths : CallCalculateRolloverAmount(m)
    \/ \E m \in TargetMonths, d \in DefaultAmounts : CallCalculateBudgetSummary(m, d)
    \/ \E m \in TargetMonths, v \in BOOLEAN, d \in DefaultAmounts :
           CallRecalculateWithRolloverChange(m, v, d)
    \/ \E now \in NowInstants : CallGetFirstTrackedMonth(now)
    \/ \E g \in NavigatorGestures, m \in TargetMonths, f \in FirstTrackedMonths,
          now \in NowInstants : CallMonthNavigator(g, m, f, now)


\* ------------------------------------------------------- the orchestrator
\*
\* The remote accounting service, the offline cache (AsyncStorage behind
\* StorageService) and the state of the home screen.  An optional value
\* (null or a value) is a sequence of length 0 or 1.

\* loadData calls in flight at once, and loadData calls in one behaviour
MaxLoads == 2
MaxLoadCalls == 2

\* how many requests and cache operations fail during a session
MaxFaults == 2

\* how many loadData calls a session with the forms is followed for
MaxSessionLoadCalls == 3

\* how many requests and cache operations fail during a session with the
\* forms
MaxSessionFaults == 1

\* how many form submissions and mutations a session is followed for
MaxMutations == 1

\* how many transactions the service is followed up to
MaxRemoteTransactions == 3

\* DEFAULT_VALUES.BUDGET_AMOUNT, in cents
DEFAULT_BUDGET_AMOUNT == 100000

Null == <<>>
Some(v) == <<v>>

\* the device's clock: Date.now() during the session
Now == LastInstant(Jan26)

\* MonthNavigation.getCurrentMonth
GetCurrentMonth ==
    MonthKey(ToString(GetFullYear(Now)), PadStart2(ToString(GetMonth(Now) + 1)))

\* transaction.timestamp.slice(0, 7): the "YYYY-MM" the timestamp string
\* starts with, the service rendering timestamps in the device's time zone
TimestampSlice7(timestamp) ==
    MonthKey(ToString(GetFullYear(timestamp)), PadStart2(ToString(GetMonth(timestamp) + 1)))

\* --- the remote service (its contract; the service's code is external)

\* how a request can end besides the service answering it
NetworkOutcomes == {"ok", "network", "server"}

\* GET /transactions/oldest/: the index of the oldest transaction, 0 for 404
RemoteOldestTransaction(rt) ==
    IF Len(rt) = 0 THEN 0
    ELSE CHOOSE i \in 1..Len(rt) :
             \A j \in 1..Len(rt) :
                 \/ rt[i].timestamp < rt[j].timestamp
                 \/ rt[i].timestamp = rt[j].timestamp /\ i <= j

\* GET /budget-summary/{month}: the base amount and the rollover setting of
\* the month's record (only these two fields are read by the client)
RemoteBudgetSummary(rb, monthYear) ==
    LET b == rb[FindBudget(rb, monthYear)]
    IN  [month_year |-> monthYear, budget_amount |-> b.budget_amount,
         rollover_enabled |-> b.rollover_enabled]

\* PUT /monthly-budgets/{month} {rollover_enabled}
RemoteSetRollover(rb, monthYear, enabled) ==
    [i \in 1..Len(rb) |->
        IF rb[i].month_year = monthYear
        THEN [rb[i] EXCEPT !.rollover_enabled = enabled]
        ELSE rb[i]]

\* POST /monthly-budgets/
RemoteCreateBudget(rb, budget) == Append(rb, budget)

\* --- the offline cache

\* StorageService.getTransactions / getMonthlyBudgets: the stored array, []
\* when the item is absent or when AsyncStorage or JSON.parse throws
StorageGet(item, readable) ==
    IF readable /\ item # Null THEN item[1] ELSE <<>>

\* --- the loadData calls

LoadIds == 1..MaxLoads

IdleLoad == [pc |-> "idle"]

FreeLoadIds ==
    {id \in LoadIds : /\ loads[id].pc = "idle"
                      /\ \A other \in 1..(id - 1) : loads[other].pc # "idle"}

NoLoad == [outcome |-> "none"]

\* the transactions and budget records the service may hold at start
RemoteTransactionPool ==
    <<Transaction(1, 130000, "withdraw", FirstInstant(Dec25)),
      Transaction(2, 5000, "withdraw", FirstInstant(Jan26))>>

RemoteBudgetChoices(monthYear) ==
    {<<>>} \cup {<<MonthlyBudget(monthYear, 100000, r)>> : r \in BOOLEAN}

RemoteSettingChoices ==
    {<<>>, <<[key |-> "default_budget_amount", value |-> <<"5", "0", ".", "0", "0">>]>>}

\* the home screen when it is mounted, the cache being empty (lines 36-58)
MountedScreen ==
    /\ storageTransactions = Null
    /\ storageMonthlyBudgets = Null
    /\ storageLastSync = Null
    /\ storageCurrentMonth = Null
    /\ currentMonth = GetCurrentMonth
    /\ transactions = <<>>
    /\ budgetSummary = Null
    /\ monthlyBudgets = <<>>
    /\ firstTrackedMonth = Null
    /\ isLoading = TRUE
    /\ isRefreshing = FALSE
    /\ snackbarVisible = FALSE
    /\ snackbarMessage = ""
    /\ isRolloverDisabled = FALSE
    /\ loadDataClosure = [currentMonth |-> GetCurrentMonth, isRolloverDisabled |-> FALSE,
                          effectPending |-> TRUE]
    /\ loads = [id \in LoadIds |-> IdleLoad]
    /\ pendingMonthChange = <<>>
    /\ lastMutation = NoMutation
    /\ mutationsLeft = MaxMutations
    /\ lastLoad = NoLoad

\* the transactions the service may hold at start
RemoteTransactionChoices ==
    {SelectSeq(RemoteTransactionPool,
               LAMBDA t : \E i \in keep : RemoteTransactionPool[i] = t) :
         keep \in SUBSET (1..Len(RemoteTransactionPool))}

AppInit ==
    /\ remoteTransactions \in RemoteTransactionChoices
    /\ \E dec \in RemoteBudgetChoices(Dec25), jan \in RemoteBudgetChoices(Jan26) :
           remoteBudgets = dec \o jan
    /\ remoteSettings \in RemoteSettingChoices
    /\ loadCallsLeft = MaxLoadCalls
    /\ faultsLeft = MaxFaults
    /\ MountedScreen

\* a session with the forms: the service holds the record of the month
\* before the current one and has no default_budget_amount setting
SessionAppInit ==
    /\ remoteTransactions \in RemoteTransactionChoices
    /\ \E jan \in RemoteBudgetChoices(Jan26) :
           remoteBudgets = <<MonthlyBudget(Dec25, 100000, TRUE)>> \o jan
    /\ remoteSettings = <<>>
    /\ loadCallsLeft = MaxSessionLoadCalls
    /\ faultsLeft = MaxSessionFaults
    /\ MountedScreen

\* a load record: where the call stands and its local variables
NewLoad ==
    [pc |-> "getBudgetSummary",
     currentMonth |-> loadDataClosure.currentMonth,
     isRolloverDisabled |-> loadDataClosure.isRolloverDisabled,
     budgetSummaryData |-> Null,
     budgetAmount |-> 0,
     transactionsData |-> <<>>,
     monthlyBudgetsData |-> <<>>,
     localTransactions |-> <<>>,
     storageReadable |-> TRUE,
     remoteFailed |-> FALSE,    \* history: a request of this call failed
     storageWritten |-> FALSE,  \* history: this call wrote to the cache
     summaryFetch |-> "none",   \* history: how the request of line 79 ended
     createRequests |-> 0,      \* history: createMonthlyBudget calls made
     created |-> <<>>,          \* history: the records the service created
     calculatedSummary |-> Null,\* history: the summary of line 130
     afterLoad |-> ""]          \* the notice of the handler awaiting the call

At(id, pc) == loads[id].pc = pc

\* n more requests or cache operations fail
Faults(n) ==
    /\ n <= faultsLeft
    /\ faultsLeft' = faultsLeft - n

\* the call resumes at pc after a request that ended with net
Step(id, net, pc) ==
    [loads EXCEPT ![id].pc = pc, ![id].remoteFailed = @ \/ net # "ok"]

\* the notice on the screen once the call has returned: that of the handler
\* which awaited the call (lines 217, 254, 304, 366) or else the call's own
AfterLoadMessage(id, message) ==
    IF loads[id].afterLoad # "" THEN loads[id].afterLoad ELSE message

\* the remote branch threw: control passes to the outer catch (line 149)
ToFallback(id, net) == Step(id, net, "fallbackGetTransactions")

\* what a returned call leaves for the history variable
ReturnedLoad(id, outcome, screenTransactions, screenSummary, message, localBudgets) ==
    [outcome |-> outcome,
     currentMonth |-> loads[id].currentMonth,
     transactions |-> screenTransactions,
     budgetSummary |-> screenSummary,
     snackbarMessage |-> message,
     isLoading |-> isLoading',
     localTransactions |-> loads[id].localTransactions,
     localBudgets |-> localBudgets,
     storageReadable |-> loads[id].storageReadable,
     remoteFailed |-> loads[id].remoteFailed,
     storageWritten |-> loads[id].storageWritten,
     summaryFetch |-> loads[id].summaryFetch,
     createRequests |-> loads[id].createRequests,
     created |-> loads[id].created,
     budgetSummaryData |-> loads[id].budgetSummaryData,
     transactionsData |-> loads[id].transactionsData,
     monthlyBudgetsData |-> loads[id].monthlyBudgetsData,
     calculatedSummary |-> loads[id].calculatedSummary,
     isRolloverDisabled |-> isRolloverDisabled]

\* mutant: the finally block leaves the two flags as they are
Finally_KeepsFlags == UNCHANGED <<isLoading, isRefreshing>>

\* the finally block of loadData (lines 188-191)
Finally ==
    /\ isLoading' = FALSE
    /\ isRefreshing' = FALSE

\* loadData(showLoading) up to its first await (lines 65-79)
StartLoadFor(id, showLoading, afterLoad) ==
    /\ loadCallsLeft > 0
    /\ loadCallsLeft' = loadCallsLeft - 1
    /\ loads' = [loads EXCEPT ![id] = [NewLoad EXCEPT !.afterLoad = afterLoad]]
    /\ isLoading' = IF showLoading THEN TRUE ELSE isLoading
    /\ lastLoad' = NoLoad

\* loadData(showLoading) called by the effect or by handleRefresh, which
\* show no notice when it returns
StartLoad(id, showLoading) == StartLoadFor(id, showLoading, "")

\* useEffect(() => { loadData() }, [loadData]) (lines 387-389)
EffectLoadData(id) ==
    /\ loadDataClosure.effectPending
    /\ id \in FreeLoadIds
    /\ StartLoad(id, TRUE)
    /\ loadDataClosure' = [loadDataClosure EXCEPT !.effectPending = FALSE]
    /\ UNCHANGED <<engVars, settingsVars, sessionVars, faultsLeft, remoteVars, storageVars, currentMonth, transactions, budgetSummary,
                   monthlyBudgets, firstTrackedMonth, isRefreshing, snackbarVisible,
                   snackbarMessage, isRolloverDisabled>>

\* handleRefresh (lines 194-197); the refresh action is rendered once
\* isLoading is false
HandleRefresh(id) ==
    /\ ~isLoading
    /\ id \in FreeLoadIds
    /\ isRefreshing' = TRUE
    /\ StartLoad(id, FALSE)
    /\ UNCHANGED <<engVars, settingsVars, sessionVars, faultsLeft, remoteVars, storageVars, currentMonth, transactions, budgetSummary,
                   monthlyBudgets, firstTrackedMonth, snackbarVisible, snackbarMessage,
                   isRolloverDisabled, loadDataClosure>>

\* await apiService.getBudgetSummary(currentMonth) (line 79): any failure,
\* a 404 included, passes to the catch that creates the budget (line 103)
GetBudgetSummaryReturns(id) ==
    /\ At(id, "getBudgetSummary")
    /\ \E net \in NetworkOutcomes : Faults(IF net = "ok" THEN 0 ELSE 1) /\
           IF net = "ok" /\ FindBudget(remoteBudgets, loads[id].currentMonth) # 0
           THEN loads' = [loads EXCEPT
                    ![id].pc = "getOldestTransaction",
                    ![id].summaryFetch = "ok",
                    ![id].budgetSummaryData =
                        Some(RemoteBudgetSummary(remoteBudgets, loads[id].currentMonth))]
           ELSE loads' = [Step(id, net, "getSettings") EXCEPT
                    ![id].summaryFetch = IF net = "ok" THEN "notFound" ELSE net]
    /\ UNCHANGED <<engVars, settingsVars, sessionVars, loadCallsLeft, remoteVars, storageVars, currentMonth, screenVars, loadDataClosure,
                   lastLoad>>

\* await apiService.getOldestTransaction() and the toggle status up to the
\* next await (lines 83-102)
GetOldestTransactionReturns(id) ==
    /\ At(id, "getOldestTransaction")
    /\ LET l == loads[id]
           rolloverEnabled == l.budgetSummaryData[1].rollover_enabled
       IN  \E net \in NetworkOutcomes : Faults(IF net = "ok" THEN 0 ELSE 1) /\
               IF net # "ok"
               THEN \* caught at line 95, the message is not the 404 one
                    /\ loads' = Step(id, net, "getTransactions")
                    /\ UNCHANGED isRolloverDisabled
               ELSE IF RemoteOldestTransaction(remoteTransactions) = 0
               THEN \* 404, caught at line 95
                    IF rolloverEnabled
                    THEN /\ loads' = Step(id, net, "updateMonthlyBudgetInCatch")
                         /\ UNCHANGED isRolloverDisabled
                    ELSE /\ loads' = Step(id, net, "getTransactions")
                         /\ isRolloverDisabled' = TRUE
               ELSE LET transaction ==
                            remoteTransactions[RemoteOldestTransaction(remoteTransactions)]
                        transactionMonthYear == TimestampSlice7(transaction.timestamp)
                    IN  IF transactionMonthYear = l.currentMonth
                        THEN /\ isRolloverDisabled' =
                                    IF ~l.isRolloverDisabled THEN TRUE
                                    ELSE isRolloverDisabled
                             /\ loads' = Step(id, net, IF rolloverEnabled
                                                  THEN "updateMonthlyBudget"
                                                  ELSE "getTransactions")
                        ELSE /\ isRolloverDisabled' =
                                    IF l.isRolloverDisabled THEN FALSE
                                    ELSE isRolloverDisabled
                             /\ loads' = Step(id, net, "getTransactions")
    /\ UNCHANGED <<engVars, settingsVars, sessionVars, loadCallsLeft, remoteVars, storageVars, currentMonth, transactions, budgetSummary,
                   monthlyBudgets, firstTrackedMonth, isLoading, isRefreshing,
                   snackbarVisible, snackbarMessage, loadDataClosure, lastLoad>>

\* await apiService.updateMonthlyBudget(currentMonth, {rollover_enabled:
\* false}) at line 90; a failure is caught at line 95
UpdateMonthlyBudgetReturns(id) ==
    /\ At(id, "updateMonthlyBudget")
    /\ \E net \in NetworkOutcomes : Faults(IF net = "ok" THEN 0 ELSE 1) /\
           IF net # "ok"
           THEN /\ loads' = Step(id, net, "getTransactions")
                /\ UNCHANGED remoteBudgets
           ELSE IF FindBudget(remoteBudgets, loads[id].currentMonth) = 0
           THEN \* 404: the catch at line 95 repeats the update at line 98
                /\ loads' = Step(id, net, "updateMonthlyBudgetInCatch")
                /\ UNCHANGED remoteBudgets
           ELSE /\ remoteBudgets' =
                       RemoteSetRollover(remoteBudgets, loads[id].currentMonth, FALSE)
                /\ loads' = Step(id, net, "getTransactions")
    /\ UNCHANGED <<engVars, settingsVars, sessionVars, loadCallsLeft, remoteTransactions, remoteSettings, storageVars, currentMonth,
                   screenVars, loadDataClosure, lastLoad>>

\* await apiService.updateMonthlyBudget(...) at line 98, inside the catch
\* of line 95: a failure here is thrown to the catch of line 103
UpdateMonthlyBudgetInCatchReturns(id) ==
    /\ At(id, "updateMonthlyBudgetInCatch")
    /\ \E net \in NetworkOutcomes : Faults(IF net = "ok" THEN 0 ELSE 1) /\
           IF net = "ok" /\ FindBudget(remoteBudgets, loads[id].currentMonth) # 0
           THEN /\ remoteBudgets' =
                       RemoteSetRollover(remoteBudgets, loads[id].currentMonth, FALSE)
                /\ isRolloverDisabled' = TRUE
                /\ loads' = Step(id, net, "getTransactions")
           ELSE /\ loads' = Step(id, net, "getSettings")
                /\ UNCHANGED <<remoteBudgets, isRolloverDisabled>>
    /\ UNCHANGED <<engVars, settingsVars, sessionVars, loadCallsLeft, remoteTransactions, remoteSettings, storageVars, currentMonth,
                   transactions, budgetSummary, monthlyBudgets, firstTrackedMonth,
                   isLoading, isRefreshing, snackbarVisible, snackbarMessage,
                   loadDataClosure, lastLoad>>

\* the amount of a budget to create always DEFAULT_VALUES.BUDGET_AMOUNT
ChooseBudgetAmount_AlwaysDefault(settings) == DEFAULT_BUDGET_AMOUNT

\* settings.find(setting => setting.key === "default_budget_amount") and
\* the choice between parseFloat(setting.value) and the default (lines
\* 109-115); the amount is in cents
ChooseBudgetAmount(settings) ==
    LET found == {i \in 1..Len(settings) : settings[i].key = "default_budget_amount"}
        setting == settings[CHOOSE i \in found : \A j \in found : i <= j]
    IN  IF found # {}
        THEN Cents(ParseFloat(setting.value)[1])
        ELSE DEFAULT_BUDGET_AMOUNT

\* await apiService.getSettings() and the choice of the amount (lines
\* 107-121); createMonthlyBudget is called next
GetSettingsReturns(id) ==
    /\ At(id, "getSettings")
    /\ \E net \in NetworkOutcomes : Faults(IF net = "ok" THEN 0 ELSE 1) /\
           IF net = "ok"
           THEN loads' = [loads EXCEPT
                    ![id].pc = "createMonthlyBudget",
                    ![id].budgetAmount = ChooseBudgetAmount(remoteSettings),
                    ![id].createRequests = @ + 1]
           ELSE loads' = ToFallback(id, net)
    /\ UNCHANGED <<engVars, settingsVars, sessionVars, loadCallsLeft, remoteVars, storageVars, currentMonth, screenVars, loadDataClosure,
                   lastLoad>>

\* await apiService.createMonthlyBudget(monthlyBudgetCreate) (line 122); the
\* service refuses a second record for a month
CreateMonthlyBudgetReturns(id) ==
    /\ At(id, "createMonthlyBudget")
    /\ \E net \in NetworkOutcomes : Faults(IF net = "ok" THEN 0 ELSE 1) /\
           IF net = "ok" /\ FindBudget(remoteBudgets, loads[id].currentMonth) = 0
           THEN /\ remoteBudgets' =
                       RemoteCreateBudget(remoteBudgets,
                           MonthlyBudget(loads[id].currentMonth, loads[id].budgetAmount, TRUE))
                /\ loads' = [loads EXCEPT
                       ![id].pc = "getBudgetSummaryAgain",
                       ![id].created =
                           Append(@, MonthlyBudget(loads[id].currentMonth,
                                                   loads[id].budgetAmount, TRUE))]
           ELSE /\ loads' = ToFallback(id, net)
                /\ UNCHANGED remoteBudgets
    /\ UNCHANGED <<engVars, settingsVars, sessionVars, loadCallsLeft, remoteTransactions, remoteSettings, storageVars, currentMonth,
                   screenVars, loadDataClosure, lastLoad>>

\* budgetSummaryData = await apiService.getBudgetSummary(currentMonth) (line 123)
GetBudgetSummaryAgainReturns(id) ==
    /\ At(id, "getBudgetSummaryAgain")
    /\ \E net \in NetworkOutcomes : Faults(IF net = "ok" THEN 0 ELSE 1) /\
           IF net = "ok" /\ FindBudget(remoteBudgets, loads[id].currentMonth) # 0
           THEN loads' = [loads EXCEPT
                    ![id].pc = "getTransactions",
                    ![id].budgetSummaryData =
                        Some(RemoteBudgetSummary(remoteBudgets, loads[id].currentMonth))]
           ELSE loads' = ToFallback(id, net)
    /\ UNCHANGED <<engVars, settingsVars, sessionVars, loadCallsLeft, remoteVars, storageVars, currentMonth, screenVars, loadDataClosure,
                   lastLoad>>

\* await apiService.getTransactions(timezone) (line 127)
GetTransactionsReturns(id) ==
    /\ At(id, "getTransactions")
    /\ \E net \in NetworkOutcomes : Faults(IF net = "ok" THEN 0 ELSE 1) /\
           IF net = "ok"
           THEN loads' = [loads EXCEPT ![id].pc = "getMonthlyBudgets",
                                       ![id].transactionsData = remoteTransactions]
           ELSE loads' = ToFallback(id, net)
    /\ UNCHANGED <<engVars, settingsVars, sessionVars, loadCallsLeft, remoteVars, storageVars, currentMonth, screenVars, loadDataClosure,
                   lastLoad>>

\* await apiService.getMonthlyBudgets() and the rest of the try block up to
\* its next await (lines 129-146)
GetMonthlyBudgetsReturns(id) ==
    /\ At(id, "getMonthlyBudgets")
    /\ \E net \in NetworkOutcomes : Faults(IF net = "ok" THEN 0 ELSE 1) /\
           IF net = "ok"
           THEN LET l == loads[id]
                    calculatedSummary ==
                        CalculateBudgetSummary(l.currentMonth, l.transactionsData,
                            remoteBudgets, l.budgetSummaryData[1].budget_amount)
                    firstTracked == GetFirstTrackedMonth(l.transactionsData, Now)
                IN  /\ transactions' = l.transactionsData
                    /\ budgetSummary' = Some(calculatedSummary)
                    /\ monthlyBudgets' = remoteBudgets
                    /\ firstTrackedMonth' = Some(firstTracked)
                    /\ loads' = [loads EXCEPT
                           ![id].pc = "saveTransactions",
                           ![id].monthlyBudgetsData = remoteBudgets,
                           ![id].calculatedSummary = Some(calculatedSummary)]
           ELSE /\ loads' = ToFallback(id, net)
                /\ UNCHANGED <<transactions, budgetSummary, monthlyBudgets,
                               firstTrackedMonth>>
    /\ UNCHANGED <<engVars, settingsVars, sessionVars, loadCallsLeft, remoteVars, storageVars, currentMonth, isLoading, isRefreshing,
                   snackbarVisible, snackbarMessage, isRolloverDisabled,
                   loadDataClosure, lastLoad>>

\* await StorageService.saveTransactions(transactionsData) (line 146); a
\* failed write is caught inside the service (storage.ts lines 27-33)
SaveTransactionsReturns(id) ==
    /\ At(id, "saveTransactions")
    /\ \E written \in BOOLEAN : Faults(IF written THEN 0 ELSE 1) /\
           /\ storageTransactions' =
                  IF written THEN Some(loads[id].transactionsData)
                  ELSE storageTransactions
           /\ loads' = [loads EXCEPT ![id].pc = "saveMonthlyBudgets",
                                     ![id].storageWritten = @ \/ written]
    /\ UNCHANGED <<engVars, settingsVars, sessionVars, loadCallsLeft, remoteVars, storageMonthlyBudgets,
                   storageLastSync, storageCurrentMonth, currentMonth, screenVars,
                   loadDataClosure, lastLoad>>

\* await StorageService.saveMonthlyBudgets(monthlyBudgetsData) (line 147)
SaveMonthlyBudgetsReturns(id) ==
    /\ At(id, "saveMonthlyBudgets")
    /\ \E written \in BOOLEAN : Faults(IF written THEN 0 ELSE 1) /\
           /\ storageMonthlyBudgets' =
                  IF written THEN Some(loads[id].monthlyBudgetsData)
                  ELSE storageMonthlyBudgets
           /\ loads' = [loads EXCEPT ![id].pc = "setLastSyncTime",
                                     ![id].storageWritten = @ \/ written]
    /\ UNCHANGED <<engVars, settingsVars, sessionVars, loadCallsLeft, remoteVars, storageTransactions,
                   storageLastSync, storageCurrentMonth, currentMonth, screenVars,
                   loadDataClosure, lastLoad>>

\* await StorageService.setLastSyncTime(...) (line 148), then the finally
\* block (lines 188-191): the call returns
SetLastSyncTimeReturns(id) ==
    /\ At(id, "setLastSyncTime")
    /\ Finally
    /\ \E written \in BOOLEAN : Faults(IF written THEN 0 ELSE 1) /\
           /\ storageLastSync' = IF written THEN Some(Now) ELSE storageLastSync
           /\ lastLoad' = [ReturnedLoad(id, "success", transactions, budgetSummary,
                                        snackbarMessage, <<>>)
                           EXCEPT !.storageWritten = @ \/ written]
    /\ snackbarMessage' = AfterLoadMessage(id, snackbarMessage)
    /\ snackbarVisible' = (snackbarVisible \/ loads[id].afterLoad # "")
    /\ loads' = [loads EXCEPT ![id] = IdleLoad]
    /\ UNCHANGED <<engVars, settingsVars, sessionVars, loadCallsLeft, remoteVars, storageTransactions, storageMonthlyBudgets,
                   storageCurrentMonth, currentMonth, transactions, budgetSummary,
                   monthlyBudgets, firstTrackedMonth, isRolloverDisabled,
                   loadDataClosure>>

\* the outer catch: await StorageService.getTransactions() and
\* setTransactions(localTransactions) (lines 154-155)
FallbackGetTransactionsReturns(id) ==
    /\ At(id, "fallbackGetTransactions")
    /\ \E readable \in BOOLEAN : Faults(IF readable THEN 0 ELSE 1) /\
           LET localTransactions == StorageGet(storageTransactions, readable)
           IN  /\ transactions' = localTransactions
               /\ loads' = [loads EXCEPT
                      ![id].pc = "fallbackGetMonthlyBudgets",
                      ![id].localTransactions = localTransactions,
                      ![id].storageReadable = readable]
    /\ UNCHANGED <<engVars, settingsVars, sessionVars, loadCallsLeft, remoteVars, storageVars, currentMonth, budgetSummary,
                   monthlyBudgets, firstTrackedMonth, isLoading, isRefreshing,
                   snackbarVisible, snackbarMessage, isRolloverDisabled,
                   loadDataClosure, lastLoad>>

\* await StorageService.getMonthlyBudgets() and the rest of the fallback
\* (lines 158-187), then the finally block (lines 188-191).  The loop of
\* lines 161-164 stops at the first record of currentMonth; with no such
\* record it reads month_year of undefined, and the TypeError is caught at
\* line 183.
FallbackGetMonthlyBudgetsReturns(id) ==
    /\ At(id, "fallbackGetMonthlyBudgets")
    /\ Finally
    /\ \E readable \in BOOLEAN : Faults(IF readable THEN 0 ELSE 1) /\
           LET l == loads[id]
               localBudgets == StorageGet(storageMonthlyBudgets, readable)
               index == FindBudget(localBudgets, l.currentMonth)
               calculatedSummary ==
                   CalculateBudgetSummary(l.currentMonth, l.localTransactions,
                       localBudgets, localBudgets[index].budget_amount)
               firstTracked == GetFirstTrackedMonth(l.localTransactions, Now)
               message == IF index # 0 THEN "Using offline data"
                          ELSE "Failed to load data"
           IN  /\ monthlyBudgets' = localBudgets
               /\ IF index # 0
                  THEN /\ budgetSummary' = Some(calculatedSummary)
                       /\ firstTrackedMonth' = Some(firstTracked)
                  ELSE UNCHANGED <<budgetSummary, firstTrackedMonth>>
               /\ snackbarMessage' = AfterLoadMessage(id, message)
               /\ snackbarVisible' = TRUE
               /\ lastLoad' =
                      [ReturnedLoad(id, IF index # 0 THEN "offline" ELSE "failed",
                                    transactions, budgetSummary', message,
                                    localBudgets)
                       EXCEPT !.storageReadable = @ /\ readable]
    /\ loads' = [loads EXCEPT ![id] = IdleLoad]
    /\ UNCHANGED <<engVars, settingsVars, sessionVars, loadCallsLeft, remoteVars, storageVars, currentMonth, transactions,
                   isRolloverDisabled, loadDataClosure>>

\* --- month navigation

\* the months the navigation is followed through
EarliestMonth == Dec25

\* App.handleMonthChange(month) (part_007 lines 55-79); net is how its
\* first failing request ends, written whether the cache took the month
HandleMonthChange(month, net, written) ==
    LET oldest == RemoteOldestTransaction(remoteTransactions)
        oldestMonth == TimestampSlice7(remoteTransactions[oldest].timestamp)
        found == FindBudget(remoteBudgets, oldestMonth)
        answered == net = "ok" /\ oldest # 0 /\ found # 0
        newMonth ==
            IF answered \/ net = "network" THEN month
            ELSE GetFirstTrackedMonth(<<>>, Now)
    IN  /\ Faults((IF net = "ok" THEN 0 ELSE 1) + (IF written THEN 0 ELSE 1))
        /\ remoteBudgets' =
               IF answered /\ month = oldestMonth /\ remoteBudgets[found].rollover_enabled
               THEN RemoteSetRollover(remoteBudgets, oldestMonth, FALSE)
               ELSE remoteBudgets
        /\ currentMonth' = newMonth
        /\ storageCurrentMonth' = IF written THEN Some(newMonth) ELSE storageCurrentMonth
        /\ loadDataClosure' =
               IF newMonth # currentMonth
               THEN [currentMonth |-> newMonth,
                     isRolloverDisabled |-> isRolloverDisabled,
                     effectPending |-> TRUE]
               ELSE loadDataClosure
        /\ UNCHANGED <<engVars, settingsVars, lastMutation, mutationsLeft, loadCallsLeft, remoteTransactions, remoteSettings, storageTransactions,
                       storageMonthlyBudgets, storageLastSync, screenVars, loads,
                       lastLoad>>

\* MonthNavigator.handlePreviousMonth (TransactionList.tsx lines 383-395)
HandlePreviousMonth ==
    /\ ~isLoading
    /\ ~loadDataClosure.effectPending
    /\ CanGoToPrevious(currentMonth, firstTrackedMonth)
    /\ StringLess(MonthString(EarliestMonth), MonthString(currentMonth))
    /\ \E net \in NetworkOutcomes, written \in BOOLEAN :
           HandleMonthChange(CalcGetPreviousMonth(currentMonth), net, written)
    /\ UNCHANGED pendingMonthChange

\* MonthNavigator.handleNextMonth (TransactionList.tsx lines 386-402)
HandleNextMonth ==
    /\ ~isLoading
    /\ ~loadDataClosure.effectPending
    /\ CanGoToNext(currentMonth, GetCurrentMonth)
    /\ \E net \in NetworkOutcomes, written \in BOOLEAN :
           HandleMonthChange(CalcGetNextMonth(currentMonth), net, written)
    /\ UNCHANGED pendingMonthChange

\* App.handleMonthChange(monthYear) called by handleSubmitBudget (line 301)
\* and not awaited: its requests return while loadData runs
MonthChangeReturns ==
    /\ pendingMonthChange # Null
    /\ pendingMonthChange' = Null
    /\ \E net \in NetworkOutcomes, written \in BOOLEAN :
           HandleMonthChange(pendingMonthChange[1], net, written)

\* --- the remote service's write operations

\* the month of the oldest of the transactions txs (txs is not empty)
OldestMonth(txs) == TimestampSlice7(txs[RemoteOldestTransaction(txs)].timestamp)

RemoteHasTransaction(rt, transactionId) ==
    \E i \in 1..Len(rt) : rt[i].id = transactionId

\* DELETE /transactions/{id}
RemoteDeleteTransaction(rt, transactionId) ==
    SelectSeq(rt, LAMBDA t : t.id # transactionId)

RECURSIVE MaxId(_)
\* the largest identifier among the transactions, 0 for none
MaxId(rt) ==
    IF Len(rt) = 0 THEN 0
    ELSE IF Head(rt).id > MaxId(Tail(rt)) THEN Head(rt).id ELSE MaxId(Tail(rt))

\* the identifier the service assigns to a new transaction
RemoteNextId(rt) == MaxId(rt) + 1

\* PUT /transactions/{id}
RemoteUpdateTransaction(rt, saved) ==
    [i \in 1..Len(rt) |-> IF rt[i].id = saved.id THEN saved ELSE rt[i]]

\* PUT /monthly-budgets/{month} {budget_amount}
RemoteSetAmount(rb, monthYear, amount) ==
    [i \in 1..Len(rb) |->
        IF rb[i].month_year = monthYear
        THEN [rb[i] EXCEPT !.budget_amount = amount]
        ELSE rb[i]]

\* --- the forms and the mutation handlers

\* the slot the next loadData call takes
FreeLoadId == CHOOSE id \in FreeLoadIds : TRUE

\* what a form submission or a mutation handler did, for the history
\* variable: flow names the handler, valid tells whether the form's
\* validation passed, remoteCalls counts the requests the handler made
\* itself, remoteWrite is how its remote write ended ("none" when none was
\* made), cacheWrite how its cache write ended ("none" when none was made),
\* reload whether it called loadData, message the notice it showed itself,
\* form the name and the amount text that were submitted, current the
\* amount of the record that handleSubmitBudget read (optional)
Mutation(flow, valid, remoteCalls, remoteWrite, cacheWrite, reload, message, form) ==
    [flow |-> flow, valid |-> valid, remoteCalls |-> remoteCalls,
     remoteWrite |-> remoteWrite, cacheWrite |-> cacheWrite, reload |-> reload,
     message |-> message, name |-> form.name, text |-> form.amount,
     current |-> Null]

\* the fields of a form
Form(name, amount) == [name |-> name, amount |-> amount]

NoForm == Form(<<>>, <<>>)

\* a handler's catch block: the notice, and nothing else changes
ShowFailure(message) ==
    /\ snackbarMessage' = message
    /\ snackbarVisible' = TRUE
    /\ UNCHANGED <<remoteVars, storageVars, currentMonth, transactions, budgetSummary,
                   monthlyBudgets, firstTrackedMonth, isLoading, isRefreshing,
                   isRolloverDisabled, loadDataClosure, loads, loadCallsLeft,
                   lastLoad, pendingMonthChange>>

Fault(ok) == IF ok THEN 0 ELSE 1

\* HomeScreen.handleDeleteTransaction(transactionId) (lines 210-224) up to
\* its loadData call; the notice of line 217 is shown when that call returns
HandleDeleteTransaction(transactionId) ==
    /\ ~isLoading
    /\ mutationsLeft > 0
    /\ mutationsLeft' = mutationsLeft - 1
    /\ \E i \in 1..Len(transactions) : transactions[i].id = transactionId
    /\ \E net \in NetworkOutcomes, readable \in BOOLEAN, written \in BOOLEAN :
           IF net = "ok" /\ RemoteHasTransaction(remoteTransactions, transactionId)
           THEN /\ FreeLoadIds # {}
                /\ Faults(Fault(readable) + Fault(written))
                /\ remoteTransactions' =
                       RemoteDeleteTransaction(remoteTransactions, transactionId)
                /\ storageTransactions' =
                       IF written
                       THEN Some(RemoteDeleteTransaction(
                                StorageGet(storageTransactions, readable), transactionId))
                       ELSE storageTransactions
                /\ StartLoadFor(FreeLoadId, FALSE, "Transaction deleted successfully")
                /\ lastMutation' =
                       Mutation("delete", TRUE, 1, "ok",
                                IF written THEN "written" ELSE "failed", TRUE, "", NoForm)
                /\ UNCHANGED <<remoteBudgets, remoteSettings, storageMonthlyBudgets,
                               storageLastSync, storageCurrentMonth, currentMonth,
                               transactions, budgetSummary, monthlyBudgets,
                               firstTrackedMonth, isRefreshing, snackbarVisible,
                               snackbarMessage, isRolloverDisabled, loadDataClosure,
                               pendingMonthChange>>
           ELSE \* the request threw: the catch of line 219
                /\ readable /\ written
                /\ Faults(Fault(net = "ok"))
                /\ ShowFailure("Failed to delete transaction")
                /\ lastMutation' =
                       Mutation("delete", TRUE, 1, "failed", "none", FALSE,
                                "Failed to delete transaction", NoForm)
    /\ UNCHANGED <<engVars, settingsVars, settingsVars>>

\* HomeScreen.handleSubmitTransaction(transactionData) (lines 226-263) up to
\* its loadData call; editing is the identifier of editingTransaction, 0 for
\* none; form, the fields the data came from, is kept for the history
HandleSubmitTransaction(editing, transactionData, form) ==
    \E net \in NetworkOutcomes, readable \in BOOLEAN, written \in BOOLEAN :
        LET savedTransaction ==
                Transaction(IF editing # 0 THEN editing
                            ELSE RemoteNextId(remoteTransactions),
                            transactionData.amount, transactionData.type,
                            transactionData.timestamp)
            saved ==
                /\ net = "ok"
                /\ editing # 0 => RemoteHasTransaction(remoteTransactions, editing)
            local == StorageGet(storageTransactions, readable)
            cached == editing = 0 \/ RemoteHasTransaction(local, editing)
            message == IF editing # 0 THEN "Transaction updated successfully"
                       ELSE "Transaction added successfully"
        IN  IF saved
            THEN /\ FreeLoadIds # {}
                 /\ editing = 0 => Len(remoteTransactions) < MaxRemoteTransactions
                 /\ cached \/ written
                 /\ Faults(Fault(readable) + Fault(written))
                 /\ remoteTransactions' =
                        IF editing # 0
                        THEN RemoteUpdateTransaction(remoteTransactions, savedTransaction)
                        ELSE Append(remoteTransactions, savedTransaction)
                 /\ storageTransactions' =
                        IF ~written \/ ~cached THEN storageTransactions
                        ELSE IF editing # 0
                        THEN Some(RemoteUpdateTransaction(local, savedTransaction))
                        ELSE Some(Append(local, savedTransaction))
                 /\ StartLoadFor(FreeLoadId, FALSE, message)
                 /\ lastMutation' =
                        Mutation(IF editing # 0 THEN "update" ELSE "create", TRUE, 1, "ok",
                                 IF ~cached THEN "none"
                                 ELSE IF written THEN "written" ELSE "failed",
                                 TRUE, "", form)
                 /\ UNCHANGED <<remoteBudgets, remoteSettings, storageMonthlyBudgets,
                                storageLastSync, storageCurrentMonth, currentMonth,
                                transactions, budgetSummary, monthlyBudgets,
                                firstTrackedMonth, isRefreshing, snackbarVisible,
                                snackbarMessage, isRolloverDisabled, loadDataClosure,
                                pendingMonthChange>>
            ELSE \* the request threw: the catch of line 258
                 /\ readable /\ written
                 /\ Faults(Fault(net = "ok"))
                 /\ ShowFailure("Failed to save transaction")
                 /\ lastMutation' =
                        Mutation(IF editing # 0 THEN "update" ELSE "create", TRUE, 1,
                                 "failed", "none", FALSE, "Failed to save transaction",
                                 form)

\* TransactionForm.validateForm (part_001 lines 98-128): the message under
\* the name field and the one under the amount field, "" for none.  The
\* amount is compared up to its third fractional digit.
NameError(name) ==
    IF Trim(name) = <<>> THEN "Transaction name is required" ELSE ""

AmountError(amount) ==
    LET numAmount == ParseFloat(TrimStart(amount))
    IN  IF Trim(amount) = <<>> THEN "Amount is required"
        ELSE IF numAmount = <<>> THEN "Amount must be a positive number"
        ELSE IF numAmount[1] <= 0 THEN "Amount must be a positive number"
        ELSE IF numAmount[1] > 999999990 THEN "Amount cannot exceed $999,999.99"
        ELSE IF Len(SecondPart(amount)) > 2
        THEN "Amount cannot have more than 2 decimal places"
        ELSE ""

ValidateForm(name, amount) == NameError(name) = "" /\ AmountError(amount) = ""

\* what the user types in the name field and in an amount field
TypedNames == {<<>>, <<" ">>, <<"R", "e", "n", "t">>}

TypedAmounts ==
    {<<>>, <<"a">>, <<".">>, <<"0">>, <<"$", "2", "5">>,
     <<"2", ".", "5", ".", "7", "5">>, <<"1", "0", "0", "0", "0", "0", "0">>}

TypedBudgetAmounts ==
    {<<>>, <<"1", "0", "0", "0">>, <<"1", "0", "0", "0", ".", "0">>,
     <<"1", "0", "0", "0", ".", "0", "0">>, <<"5", "0">>}

\* the dates the date picker is set to
PickedDates == {LastInstant(Dec25), LastInstant(Jan26)}

\* TransactionForm.handleSubmit (part_001 lines 130-156) with the fields as
\* onChangeText left them (lines 232-235), followed by the screen's
\* handleSubmitTransaction when the form is valid
SubmitTransactionForm(editing, name, typed, type, date) ==
    LET amount == FormatAmount(typed)
    IN  /\ ~isLoading
        /\ mutationsLeft > 0
        /\ mutationsLeft' = mutationsLeft - 1
        /\ editing # 0 => \E i \in 1..Len(transactions) : transactions[i].id = editing
        /\ IF ValidateForm(name, amount)
           THEN HandleSubmitTransaction(editing,
                    [amount |-> Cents(ParseFloat(amount)[1]), type |-> type,
                     timestamp |-> date], Form(name, amount))
           ELSE /\ editing = 0 /\ date = LastInstant(Jan26)
                /\ lastMutation' =
                       Mutation("transactionForm", FALSE, 0, "none", "none", FALSE,
                                IF NameError(name) # "" THEN NameError(name)
                                ELSE AmountError(amount), Form(name, amount))
                /\ UNCHANGED <<appVarsButMutation, faultsLeft>>
        /\ UNCHANGED <<engVars, settingsVars, settingsVars>>

\* HomeScreen.handleSubmitBudget(monthYear, budgetAmount) (lines 280-311) up
\* to its loadData call.  A budget_amount of NaN is sent as null and is taken
\* to leave the record as it is.
HandleSubmitBudget(monthYear, budgetAmountText) ==
    \E net \in NetworkOutcomes, netUpdate \in NetworkOutcomes :
        LET found == FindBudget(remoteBudgets, monthYear)
            parsed == ParseFloat(budgetAmountText)
        IN  IF net # "ok" \/ found = 0
            THEN \* getMonthlyBudget threw: the catch of line 306
                 /\ netUpdate = "ok"
                 /\ Faults(Fault(net = "ok"))
                 /\ ShowFailure("Failed to save updated monthly budget")
                 /\ lastMutation' =
                        Mutation("budget", TRUE, 1, "none", "none", FALSE,
                                 "Failed to save updated monthly budget",
                                 Form(<<>>, budgetAmountText))
            ELSE IF budgetAmountText = ToFixed2(remoteBudgets[found].budget_amount)
            THEN \* lines 287-292
                 /\ netUpdate = "ok"
                 /\ Faults(0)
                 /\ ShowFailure("Same Budget amount")
                 /\ lastMutation' =
                        [Mutation("budget", TRUE, 1, "none", "none", FALSE,
                                  "Same Budget amount", Form(<<>>, budgetAmountText))
                         EXCEPT !.current = Some(remoteBudgets[found].budget_amount)]
            ELSE /\ FreeLoadIds # {}
                 /\ pendingMonthChange = Null
                 /\ Faults(Fault(netUpdate = "ok"))
                 /\ remoteBudgets' =
                        IF netUpdate = "ok" /\ parsed # <<>>
                        THEN RemoteSetAmount(remoteBudgets, monthYear, Cents(parsed[1]))
                        ELSE remoteBudgets
                 /\ pendingMonthChange' = Some(monthYear)
                 /\ StartLoadFor(FreeLoadId, FALSE, "budget successfully updated")
                 /\ lastMutation' =
                        [Mutation("budget", TRUE, 2,
                                  IF netUpdate = "ok" THEN "ok" ELSE "failed",
                                  "none", TRUE, "", Form(<<>>, budgetAmountText))
                         EXCEPT !.current = Some(remoteBudgets[found].budget_amount)]
                 /\ UNCHANGED <<remoteTransactions, remoteSettings, storageVars,
                                currentMonth, transactions, budgetSummary,
                                monthlyBudgets, firstTrackedMonth, isRefreshing,
                                snackbarVisible, snackbarMessage, isRolloverDisabled,
                                loadDataClosure>>

\* EditBudgetForm.handleSubmit (part_002 lines 65-81), whose validateForm
\* sets no message, with the field as onChangeText left it (lines 141-145)
\* or as onBlur reformatted it (lines 146-153), followed by the screen's
\* handleSubmitBudget(currentMonth, budgetAmount)
SubmitBudgetForm(typed, blurred) ==
    LET budgetAmount == IF blurred THEN FormatAmountForDisplay(FormatAmount(typed))
                        ELSE FormatAmount(typed)
    IN  /\ ~isLoading
        /\ mutationsLeft > 0
        /\ mutationsLeft' = mutationsLeft - 1
        /\ budgetSummary # Null
        /\ HandleSubmitBudget(currentMonth, budgetAmount)
        /\ UNCHANGED <<engVars, settingsVars, settingsVars>>

\* mutant: the handler does not look at the month of the oldest transaction
ToggleRefused_Never(transactionMonthYear) == FALSE

\* handleToggleRollover, line 319: if (transactionMonthYear == currentMonth) return
ToggleRefused(transactionMonthYear) == transactionMonthYear = currentMonth

\* HomeScreen.handleToggleRollover(enabled) (lines 313-380) up to its
\* loadData call; the switch is enabled while transactions are shown and
\* isRolloverDisabled is false (BudgetSummary.tsx line 195)
HandleToggleRollover ==
    /\ ~isLoading
    /\ mutationsLeft > 0
    /\ mutationsLeft' = mutationsLeft - 1
    /\ budgetSummary # Null
    /\ transactions # <<>>
    /\ ~isRolloverDisabled
    /\ \E net \in NetworkOutcomes, written \in BOOLEAN, netGet \in NetworkOutcomes,
          netUpdate \in NetworkOutcomes :
           LET enabled == ~budgetSummary[1].rollover_enabled
               monthYear == budgetSummary[1].month_year
               oldest == RemoteOldestTransaction(remoteTransactions)
               updatedBudgets == RemoteSetRollover(monthlyBudgets, monthYear, enabled)
               local == FindBudget(updatedBudgets, currentMonth)
               remote == FindBudget(remoteBudgets, currentMonth)
               budgetAmount == IF local # 0 THEN updatedBudgets[local].budget_amount
                               ELSE remoteBudgets[remote].budget_amount
               notice == IF enabled THEN "Budget rollover enabled"
                         ELSE "Budget rollover disabled"
           IN  IF net # "ok" \/ oldest = 0
               THEN \* getOldestTransaction threw: the catch of line 370
                    /\ written /\ netGet = "ok" /\ netUpdate = "ok"
                    /\ Faults(Fault(net = "ok"))
                    /\ ShowFailure("Failed to update rollover setting")
                    /\ lastMutation' =
                           Mutation("toggle", TRUE, 1, "none", "none", FALSE,
                                    "Failed to update rollover setting", NoForm)
               ELSE IF ToggleRefused(OldestMonth(remoteTransactions))
               THEN \* line 319
                    /\ written /\ netGet = "ok" /\ netUpdate = "ok"
                    /\ Faults(0)
                    /\ lastMutation' =
                           Mutation("toggle", TRUE, 1, "none", "none", FALSE, "", NoForm)
                    /\ UNCHANGED <<appVarsButMutation, faultsLeft>>
               ELSE IF local = 0 /\ (netGet # "ok" \/ remote = 0)
               THEN \* getMonthlyBudget threw (line 344), after lines 336-339
                    /\ netUpdate = "ok"
                    /\ Faults(Fault(written) + Fault(netGet = "ok"))
                    /\ monthlyBudgets' = updatedBudgets
                    /\ storageMonthlyBudgets' =
                           IF written THEN Some(updatedBudgets) ELSE storageMonthlyBudgets
                    /\ snackbarMessage' = "Failed to update rollover setting"
                    /\ snackbarVisible' = TRUE
                    /\ lastMutation' =
                           Mutation("toggle", TRUE, 2, "none",
                                    IF written THEN "written" ELSE "failed", FALSE,
                                    "Failed to update rollover setting", NoForm)
                    /\ UNCHANGED <<remoteVars, storageTransactions, storageLastSync,
                                   storageCurrentMonth, currentMonth, transactions,
                                   budgetSummary, firstTrackedMonth, isLoading,
                                   isRefreshing, isRolloverDisabled, loadDataClosure,
                                   loads, loadCallsLeft, lastLoad, pendingMonthChange>>
               ELSE /\ FreeLoadIds # {}
                    /\ local = 0 \/ netGet = "ok"
                    /\ Faults(Fault(written) + Fault(netUpdate = "ok"))
                    /\ monthlyBudgets' = updatedBudgets
                    /\ storageMonthlyBudgets' =
                           IF written THEN Some(updatedBudgets) ELSE storageMonthlyBudgets
                    /\ budgetSummary' =
                           Some(RecalculateWithRolloverChange(monthYear, transactions,
                                    updatedBudgets, enabled, budgetAmount))
                    /\ remoteBudgets' =
                           IF netUpdate = "ok"
                           THEN RemoteSetRollover(remoteBudgets, monthYear, enabled)
                           ELSE remoteBudgets
                    /\ StartLoadFor(FreeLoadId, FALSE, notice)
                    /\ lastMutation' =
                           Mutation("toggle", TRUE, IF local = 0 THEN 3 ELSE 2,
                                    IF netUpdate = "ok"
                                       /\ FindBudget(remoteBudgets, monthYear) # 0
                                    THEN "ok" ELSE "failed",
                                    IF written THEN "written" ELSE "failed", TRUE, "",
                                    NoForm)
                    /\ UNCHANGED <<remoteTransactions, remoteSettings,
                                   storageTransactions, storageLastSync,
                                   storageCurrentMonth, currentMonth, transactions,
                                   firstTrackedMonth, isRefreshing, snackbarVisible,
                                   snackbarMessage, isRolloverDisabled,
                                   loadDataClosure, pendingMonthChange>>
    /\ UNCHANGED <<engVars, settingsVars, settingsVars>>

\* a loadData call in flight resumes after the await it is suspended at
LoadResumes(id) ==
    \/ GetBudgetSummaryReturns(id)
    \/ GetOldestTransactionReturns(id)
    \/ UpdateMonthlyBudgetReturns(id)
    \/ UpdateMonthlyBudgetInCatchReturns(id)
    \/ GetSettingsReturns(id)
    \/ CreateMonthlyBudgetReturns(id)
    \/ GetBudgetSummaryAgainReturns(id)
    \/ GetTransactionsReturns(id)
    \/ GetMonthlyBudgetsReturns(id)
    \/ SaveTransactionsReturns(id)
    \/ SaveMonthlyBudgetsReturns(id)
    \/ SetLastSyncTimeReturns(id)
    \/ FallbackGetTransactionsReturns(id)
    \/ FallbackGetMonthlyBudgetsReturns(id)

LoadNext(id) ==
    \/ EffectLoadData(id)
    \/ HandleRefresh(id)
    \/ LoadResumes(id)

AppNext ==
    \/ \E id \in LoadIds : LoadNext(id)
    \/ HandlePreviousMonth
    \/ HandleNextMonth

\* the identifiers of the transactions on the screen
ShownIds == {transactions[i].id : i \in 1..Len(transactions)}

\* the delete action of a transaction on the screen is pressed
DeleteTransactionPressed ==
    \E transactionId \in ShownIds : HandleDeleteTransaction(transactionId)

\* the transaction form, opened empty or on a transaction of the screen, is
\* filled and submitted
TransactionFormSubmitted ==
    \E editing \in {0} \cup ShownIds, name \in TypedNames, typed \in TypedAmounts,
       type \in {"withdraw"}, date \in PickedDates :
        SubmitTransactionForm(editing, name, typed, type, date)

\* the budget form is filled and submitted
BudgetFormSubmitted ==
    \E typed \in TypedBudgetAmounts, blurred \in BOOLEAN :
        SubmitBudgetForm(typed, blurred)

\* the screen with its forms and mutation handlers, on the month it was
\* mounted with (the month navigator is followed in AppNext)
SessionNext ==
    \/ \E id \in LoadIds : LoadNext(id)
    \/ MonthChangeReturns
    \/ DeleteTransactionPressed
    \/ TransactionFormSubmitted
    \/ BudgetFormSubmitted
    \/ HandleToggleRollover

\* the engine's arguments while the application runs: none
EngIdle ==
    /\ engTransactions = <<>>
    /\ engBudgets = <<>>
    /\ engCall = NoCall

\* the application before its first load, the service holding nothing
AppIdle ==
    /\ remoteTransactions = <<>>
    /\ remoteBudgets = <<>>
    /\ remoteSettings = <<>>
    /\ storageTransactions = Null
    /\ storageMonthlyBudgets = Null
    /\ storageLastSync = Null
    /\ storageCurrentMonth = Null
    /\ currentMonth = GetCurrentMonth
    /\ transactions = <<>>
    /\ budgetSummary = Null
    /\ monthlyBudgets = <<>>
    /\ firstTrackedMonth = Null
    /\ isLoading = TRUE
    /\ isRefreshing = FALSE
    /\ snackbarVisible = FALSE
    /\ snackbarMessage = ""
    /\ isRolloverDisabled = FALSE
    /\ loadDataClosure = [currentMonth |-> GetCurrentMonth, isRolloverDisabled |-> FALSE,
                          effectPending |-> TRUE]
    /\ loads = [id \in LoadIds |-> IdleLoad]
    /\ loadCallsLeft = 0
    /\ faultsLeft = 0
    /\ pendingMonthChange = <<>>
    /\ lastMutation = NoMutation
    /\ mutationsLeft = MaxMutations
    /\ lastLoad = NoLoad

\* the settings screen closed, the cache holding no settings
NoUpdate == [outcome |-> "none"]

ClosedScreen ==
    [mounted |-> FALSE, defaultBudget |-> <<>>, snackbarMessage |-> "",
     initPending |-> FALSE]

IdleUpdate == [pc |-> "idle", defaultBudget |-> <<>>, settings |-> <<>>]

SettingsIdle ==
    /\ storageSettings = <<>>
    /\ settingsScreen = ClosedScreen
    /\ updateCall = IdleUpdate
    /\ settingsVisitsLeft = 0
    /\ lastUpdate = NoUpdate

\* the engine alone, called on drawn arguments
EngineInit == EngInit /\ AppIdle /\ SettingsIdle

EngineSpec == EngineInit /\ [][EngNext]_vars

\* the application: the home screen, the service and the cache
Init == AppInit /\ EngIdle /\ SettingsIdle

Spec == Init /\ [][AppNext]_vars

\* the application, every request and every cache operation being answered
\* or failing in the end, so that a suspended loadData call resumes.
\* Weak fairness of LoadResumes(id), WF_vars(LoadResumes(id)), with the
\* condition under which the action is enabled written out: a call in flight
\* can always resume, since every await ends with an answer or a failure.
LiveSpec ==
    /\ Init /\ [][AppNext]_vars
    /\ \A id \in LoadIds :
           []<>(loads[id].pc = "idle") \/ []<><<LoadResumes(id)>>_vars

\* the application with its forms and mutation handlers
SessionInit == SessionAppInit /\ EngIdle /\ SettingsIdle

SessionSpec == SessionInit /\ [][SessionNext]_vars

\* -------------------------------------- the Default Budget settings screen
\*
\* DefaultBudgetSettingsScreen (SettingsNavigationScreen.tsx): the screen
\* reads the default_budget_amount setting when it is mounted
\* (initTextInput), the user edits the text and saves it
\* (updateDefaultBudget).  Saving navigates back, which unmounts the screen
\* while updateDefaultBudget is still running.

\* visits of the screen and failing requests in one behaviour
MaxSettingsVisits == 2
MaxSettingsFaults == 1

\* settings.find(setting => setting.key == 'default_budget_amount')?.value:
\* the value of the first such setting, undefined for none (optional)
DefaultBudgetValue(settings) ==
    LET found == {i \in 1..Len(settings) : settings[i].key = "default_budget_amount"}
    IN  IF found = {} THEN <<>>
        ELSE <<settings[CHOOSE i \in found : \A j \in found : i <= j].value>>

\* PUT /settings {key, value}: the setting's value is replaced, the setting
\* is added when the service has none of that key
RemoteUpdateSetting(rs, key, value) ==
    IF \E i \in 1..Len(rs) : rs[i].key = key
    THEN [i \in 1..Len(rs) |->
             IF rs[i].key = key THEN [rs[i] EXCEPT !.value = value] ELSE rs[i]]
    ELSE Append(rs, [key |-> key, value |-> value])

\* handleInputBudget's pattern /^\d*\.?\d{0,2}$/ (lines 364-368)
DecimalPattern(text) ==
    \E k \in 0..Len(text) :
        /\ \A i \in 1..k : IsDigit(text[i])
        /\ IF k = Len(text) THEN TRUE
           ELSE /\ text[k + 1] = "."
                /\ Len(text) - (k + 1) <= 2
                /\ \A i \in (k + 2)..Len(text) : IsDigit(text[i])

\* what the user types in the field
TypedDefaultBudgets ==
    {<<>>, <<"7", "5">>, <<"5", "0", ".", "0", "0">>, <<"7", ".", "5">>,
     <<"7", "5", ".", "1", "2", "5">>, <<"a">>}

\* everything of the application but the service's settings and the count
\* of failures
appVarsButSettings == <<remoteTransactions, remoteBudgets, storageVars, currentMonth, screenVars, loadDataClosure, loads, loadCallsLeft, lastLoad, pendingMonthChange, lastMutation, mutationsLeft>>

\* the screen is mounted: useState("0.00") (line 299) and the effect that
\* calls initTextInput (lines 372-374), up to its await of getSettings
OpenDefaultBudgetScreen ==
    /\ ~settingsScreen.mounted
    /\ ~settingsScreen.initPending
    /\ settingsVisitsLeft > 0
    /\ settingsVisitsLeft' = settingsVisitsLeft - 1
    /\ settingsScreen' = [mounted |-> TRUE, defaultBudget |-> <<<<"0", ".", "0", "0">>>>,
                          snackbarMessage |-> "", initPending |-> TRUE]
    /\ UNCHANGED <<engVars, appVars, storageSettings, updateCall, lastUpdate>>

\* initTextInput after its getSettings request (lines 305-332): net is how
\* the request ended, written and readable how the cache operation went.
\* The state of a screen that was unmounted meanwhile is not set.
InitTextInputReturns ==
    /\ settingsScreen.initPending
    /\ \E net \in NetworkOutcomes, written \in BOOLEAN, readable \in BOOLEAN :
           LET localSettings == StorageGet(storageSettings, readable)
           IN  IF net = "ok"
               THEN /\ readable
                    /\ Faults(Fault(written))
                    /\ settingsScreen' =
                           IF settingsScreen.mounted
                           THEN [settingsScreen EXCEPT
                                    !.defaultBudget = DefaultBudgetValue(remoteSettings),
                                    !.initPending = FALSE]
                           ELSE [settingsScreen EXCEPT !.initPending = FALSE]
                    /\ storageSettings' =
                           IF written THEN Some(remoteSettings) ELSE storageSettings
               ELSE /\ written
                    /\ Faults(1 + Fault(readable))
                    /\ settingsScreen' =
                           IF settingsScreen.mounted
                           THEN [settingsScreen EXCEPT
                                    !.defaultBudget = DefaultBudgetValue(localSettings),
                                    !.snackbarMessage = "Using offline data",
                                    !.initPending = FALSE]
                           ELSE [settingsScreen EXCEPT !.initPending = FALSE]
                    /\ UNCHANGED storageSettings
    /\ UNCHANGED <<engVars, appVarsButSettings, remoteSettings, updateCall,
                   settingsVisitsLeft, lastUpdate>>

\* handleInputBudget(text) (lines 364-369): a text that does not match the
\* pattern is dropped
HandleInputBudget(text) ==
    /\ settingsScreen.mounted
    /\ settingsScreen.defaultBudget # <<text>>
    /\ DecimalPattern(text)
    /\ settingsScreen' = [settingsScreen EXCEPT !.defaultBudget = <<text>>]
    /\ UNCHANGED <<engVars, appVars, storageSettings, updateCall, settingsVisitsLeft,
                   lastUpdate>>

\* handleSave (lines 359-362): updateDefaultBudget is called with the text
\* of this render, up to its await of getSettings, and the screen is left
HandleSave ==
    /\ settingsScreen.mounted
    /\ updateCall.pc = "idle"
    /\ updateCall' = [pc |-> "getSettings",
                      defaultBudget |-> settingsScreen.defaultBudget,
                      settings |-> <<>>]
    /\ settingsScreen' = [settingsScreen EXCEPT !.mounted = FALSE]
    /\ UNCHANGED <<engVars, appVars, storageSettings, settingsVisitsLeft, lastUpdate>>

\* onPressBackAction: the screen is left without saving
HandleBack ==
    /\ settingsScreen.mounted
    /\ settingsScreen' = [settingsScreen EXCEPT !.mounted = FALSE]
    /\ UNCHANGED <<engVars, appVars, storageSettings, updateCall, settingsVisitsLeft,
                   lastUpdate>>

\* an updateDefaultBudget call that returned: how it ended, the text it was
\* called with, the settings it fetched, whether it wrote the cache
ReturnedUpdate(outcome, saved) ==
    [outcome |-> outcome, defaultBudget |-> updateCall.defaultBudget,
     settings |-> updateCall.settings, saved |-> saved]

\* updateDefaultBudget after its getSettings request (lines 336-340 and the
\* catch of lines 351-355)
UpdateGetSettingsReturns ==
    /\ updateCall.pc = "getSettings"
    /\ \E net \in NetworkOutcomes :
           LET currentDefaultBudget == DefaultBudgetValue(remoteSettings)
           IN  IF net # "ok"
               THEN /\ Faults(1)
                    /\ updateCall' = IdleUpdate
                    /\ lastUpdate' = ReturnedUpdate("Failed to load data from API", FALSE)
               ELSE IF currentDefaultBudget # updateCall.defaultBudget
               THEN /\ Faults(0)
                    /\ updateCall' = [updateCall EXCEPT !.pc = "updateSetting",
                                                        !.settings = remoteSettings]
                    /\ UNCHANGED lastUpdate
               ELSE /\ Faults(0)
                    /\ updateCall' = IdleUpdate
                    /\ lastUpdate' =
                           [ReturnedUpdate("same", FALSE) EXCEPT !.settings = remoteSettings]
    /\ UNCHANGED <<engVars, appVarsButSettings, remoteSettings, storageSettings,
                   settingsScreen, settingsVisitsLeft>>

\* the argument of StorageService.saveSettings in updateDefaultBudget (line
\* 345): settings, the array fetched at line 337
SettingsToSave(call) == call.settings

\* updateDefaultBudget after its updateSetting request (lines 342-350): the
\* request of a text that is undefined carries no value and is refused by
\* the service; written is whether the cache took the settings
UpdateSettingReturns ==
    /\ updateCall.pc = "updateSetting"
    /\ \E net \in NetworkOutcomes, written \in BOOLEAN :
           IF net = "ok" /\ updateCall.defaultBudget # <<>>
           THEN /\ Faults(Fault(written))
                /\ remoteSettings' =
                       RemoteUpdateSetting(remoteSettings, "default_budget_amount",
                                           updateCall.defaultBudget[1])
                /\ storageSettings' =
                       IF written THEN Some(SettingsToSave(updateCall))
                       ELSE storageSettings
                /\ lastUpdate' = ReturnedUpdate("updated", written)
           ELSE /\ written
                /\ Faults(Fault(net = "ok"))
                /\ lastUpdate' = ReturnedUpdate("Failed to update default budget", FALSE)
                /\ UNCHANGED <<remoteSettings, storageSettings>>
    /\ updateCall' = IdleUpdate
    /\ UNCHANGED <<engVars, appVarsButSettings, settingsScreen, settingsVisitsLeft>>

SettingsNext ==
    \/ OpenDefaultBudgetScreen
    \/ InitTextInputReturns
    \/ \E text \in TypedDefaultBudgets : HandleInputBudget(text)
    \/ HandleSave
    \/ HandleBack
    \/ UpdateGetSettingsReturns
    \/ UpdateSettingReturns

\* the settings screen not yet opened, the home screen at rest, the service
\* holding no setting or a default budget of 50.00
SettingsInit ==
    /\ EngIdle
    /\ remoteSettings \in RemoteSettingChoices
    /\ faultsLeft = MaxSettingsFaults
    /\ remoteTransactions = <<>>
    /\ remoteBudgets = <<>>
    /\ MountedScreen
    /\ loadCallsLeft = 0
    /\ storageSettings = <<>>
    /\ settingsScreen = ClosedScreen
    /\ updateCall = IdleUpdate
    /\ settingsVisitsLeft = MaxSettingsVisits
    /\ lastUpdate = NoUpdate

SettingsSpec == SettingsInit /\ [][SettingsNext]_vars

\* ---------------------------------------------- the claims about the engine

\* the half-open interval [firstInstant(M), firstInstant(nextMonth(M)))
InMonth(t, monthYear) ==
    /\ FirstInstant(monthYear) <= t.timestamp
    /\ t.timestamp < FirstInstant(CalcGetNextMonth(monthYear))

RECURSIVE SumOfType(_, _, _)
\* the sum of the amounts of the transactions of one type within a month
SumOfType(txs, type, monthYear) ==
    IF Len(txs) = 0 THEN 0
    ELSE (IF Head(txs).type = type /\ InMonth(Head(txs), monthYear)
          THEN Head(txs).amount ELSE 0)
         + SumOfType(Tail(txs), type, monthYear)

\* the number of the month of a key, counted from year 0
MonthIndex(monthYear) == ParseInt(monthYear.year) * 12 + ParseInt(monthYear.month) - 1

\* the inputs without the transactions and the budget records before monthYear
TransactionsFrom(txs, monthYear) ==
    LET keep(t) == t.timestamp >= FirstInstant(monthYear)
    IN  SelectSeq(txs, keep)
BudgetsFrom(budgets, monthYear) ==
    LET keep(b) == MonthIndex(b.month_year) >= MonthIndex(monthYear)
    IN  SelectSeq(budgets, keep)

\* the inputs without the transactions and the budget records of monthYear
TransactionsOutside(txs, monthYear) ==
    LET keep(t) == ~InMonth(t, monthYear)
    IN  SelectSeq(txs, keep)
BudgetsOutside(budgets, monthYear) ==
    LET keep(b) == b.month_year # monthYear
    IN  SelectSeq(budgets, keep)

\* budgets with the stored amount of every record of monthYear replaced
WithStoredAmount(budgets, monthYear, amount) ==
    [i \in 1..Len(budgets) |->
        IF budgets[i].month_year = monthYear
        THEN [budgets[i] EXCEPT !.budget_amount = amount]
        ELSE budgets[i]]

\* the scenario of the specification, two months later in the year: a
\* budget of 1000.00 and one withdrawal of 800.00 in the first month, a
\* budget of 1000.00 with rollover and one withdrawal of 1300.00 in the second
ScenarioInputs ==
    /\ engTransactions = <<Transaction(0, 80000, "withdraw", LastInstant(Nov25)),
                           Transaction(0, 130000, "withdraw", FirstInstant(Dec25))>>
    /\ Len(engBudgets) = 2
    /\ engBudgets[1].month_year = Nov25
    /\ engBudgets[2] = MonthlyBudget(Dec25, 100000, TRUE)

C2_EffectiveBudget ==
    engCall.op = "calculateBudgetSummary" =>
        LET M == engCall.monthYear
            d == engCall.defaultBudgetAmount
            found == FindBudget(engBudgets, M)
            carry == CalculateRolloverAmount(engTransactions, engBudgets, M)
        IN  /\ found = 0 =>
                   /\ engCall.result.budget_amount = d + carry
                   /\ engCall.result.rollover_enabled = TRUE
            /\ found # 0 /\ engBudgets[found].rollover_enabled =>
                   /\ engCall.result.budget_amount = d + carry
                   /\ engCall.result.rollover_enabled = TRUE
            /\ found # 0 /\ ~engBudgets[found].rollover_enabled =>
                   /\ engCall.result.budget_amount = d
                   /\ engCall.result.rollover_enabled = FALSE
            /\ CalculateBudgetSummary(M, engTransactions,
                   WithStoredAmount(engBudgets, M, 0), d) = engCall.result

C2_Witness ==
    /\ engCall.op = "calculateBudgetSummary"
    /\ LET found == FindBudget(engBudgets, engCall.monthYear)
       IN  /\ found # 0
           /\ ~engBudgets[found].rollover_enabled
           /\ engBudgets[found].budget_amount # engCall.defaultBudgetAmount
    /\ CalculateRolloverAmount(engTransactions, engBudgets, engCall.monthYear) > 0
    /\ engCall.result.budget_amount = engCall.defaultBudgetAmount

\* C3: in every summary the remaining budget is the budget amount minus the
\* total, and the summary is over budget exactly when the remaining budget
\* is below zero: not at 0.00, but at -0.01.
C3_RemainingAndOverBudget ==
    engCall.op = "calculateBudgetSummary" =>
        /\ engCall.result.remaining_budget =
               engCall.result.budget_amount - engCall.result.total_transactions
        /\ engCall.result.is_over_budget <=> engCall.result.remaining_budget < 0
        /\ engCall.result.remaining_budget = 0 => ~engCall.result.is_over_budget
        /\ engCall.result.remaining_budget = 0 - 1 => engCall.result.is_over_budget

C3_Witness ==
    /\ engCall.op = "calculateBudgetSummary"
    /\ engCall.result.remaining_budget = 0 - 1
    /\ engCall.result.is_over_budget

\* the other side of the boundary of C3 is reached too
C3_WitnessZero ==
    /\ engCall.op = "calculateBudgetSummary"
    /\ engCall.result.remaining_budget = 0
    /\ ~engCall.result.is_over_budget

\* C4: the total of a month is the sum of the month's withdrawals minus the
\* sum of the month's deposits, 0 for a month without transactions, and
\* independent of the transactions of other months; a withdrawal of 50.00
\* and a deposit of 20.00 in one month give 30.00.
C4_TotalForMonth ==
    engCall.op = "calculateTotalForMonth" =>
        LET M == engCall.monthYear
            inM == {i \in 1..Len(engTransactions) : InMonth(engTransactions[i], M)}
        IN  /\ engCall.result = SumOfType(engTransactions, "withdraw", M)
                                - SumOfType(engTransactions, "deposit", M)
            /\ inM = {} => engCall.result = 0
            /\ engCall.result =
                   CalculateTotalForMonth(TransactionsOutside(engTransactions,
                       CalcGetPreviousMonth(M)), M)
            /\ engCall.result =
                   CalculateTotalForMonth(TransactionsOutside(engTransactions,
                       CalcGetNextMonth(M)), M)
            /\ (/\ Len(engTransactions) = 2
                /\ \A i \in 1..2 : InMonth(engTransactions[i], M)
                /\ \E i, j \in 1..2 :
                       /\ engTransactions[i].type = "withdraw"
                       /\ engTransactions[i].amount = 5000
                       /\ engTransactions[j].type = "deposit"
                       /\ engTransactions[j].amount = 2000)
               => engCall.result = 3000

C4_Witness ==
    /\ engCall.op = "calculateTotalForMonth"
    /\ engCall.monthYear = Dec25
    /\ engTransactions = <<Transaction(0, 5000, "withdraw", FirstInstant(Dec25)),
                           Transaction(0, 2000, "deposit", FirstInstant(Dec25))>>
    /\ engCall.result = 3000

\* C5: the transactions of a month are, in input order, exactly those whose
\* timestamp lies in [firstInstant(M), firstInstant(nextMonth(M))): the last
\* instant of M belongs to M, the first instant of the next month to the
\* next month, every transaction to exactly one month, and an empty input
\* gives an empty output.
C5_TransactionsForMonth ==
    engCall.op = "getTransactionsForMonth" =>
        LET M == engCall.monthYear
            inM(t) == InMonth(t, M)
        IN  /\ engCall.result = SelectSeq(engTransactions, inM)
            /\ \A i \in 1..Len(engTransactions) :
                   LET t == engTransactions[i]
                   IN  /\ t.timestamp = LastInstant(M) =>
                              \E k \in 1..Len(engCall.result) : engCall.result[k] = t
                       /\ t.timestamp = FirstInstant(CalcGetNextMonth(M)) =>
                              /\ \A k \in 1..Len(engCall.result) : engCall.result[k] # t
                              /\ GetTransactionsForMonth(<<t>>, CalcGetNextMonth(M)) = <<t>>
                       /\ Cardinality({K \in TargetMonths :
                              GetTransactionsForMonth(<<t>>, K) = <<t>>}) = 1
            /\ engTransactions = <<>> => engCall.result = <<>>

C5_Witness ==
    /\ engCall.op = "getTransactionsForMonth"
    /\ engCall.monthYear = Nov25
    /\ Len(engTransactions) = 2
    /\ engTransactions[1].timestamp = FirstInstant(Dec25)
    /\ engTransactions[2].timestamp = LastInstant(Nov25)
    /\ engCall.result = <<engTransactions[2]>>

FreshEmptyMonth ==
    /\ engCall.op = "calculateBudgetSummary"
    /\ FindBudget(engBudgets, engCall.monthYear) = 0
    /\ \A i \in 1..Len(engTransactions) :
           ~InMonth(engTransactions[i], engCall.monthYear)

\* C7 as claimed: a month without a budget record and without transactions
\* summarizes with total 0, the remaining budget equal to the effective
\* budget amount, and never over budget, whatever the preceding months hold.
C7_FreshMonthNeverOverBudget ==
    FreshEmptyMonth =>
        /\ engCall.result.total_transactions = 0
        /\ engCall.result.remaining_budget = engCall.result.budget_amount
        /\ engCall.result.is_over_budget = FALSE

\* C7 as amended: such a month summarizes with total 0 and the remaining
\* budget equal to the effective budget amount (default amount plus
\* carry-in); it is over budget exactly when that amount is negative, that
\* is when the deficit carried in exceeds the default amount.
C7_FreshMonthOverBudgetIffDeficit ==
    FreshEmptyMonth =>
        LET carry == CalculateRolloverAmount(engTransactions, engBudgets,
                                             engCall.monthYear)
        IN  /\ engCall.result.total_transactions = 0
            /\ engCall.result.budget_amount = engCall.defaultBudgetAmount + carry
            /\ engCall.result.remaining_budget = engCall.result.budget_amount
            /\ engCall.result.is_over_budget <=>
                   engCall.defaultBudgetAmount + carry < 0

C7_Witness ==
    /\ FreshEmptyMonth
    /\ Len(engTransactions) > 0
    /\ CalculateRolloverAmount(engTransactions, engBudgets, engCall.monthYear) > 0
    /\ engCall.result.total_transactions = 0
    /\ engCall.result.remaining_budget > engCall.defaultBudgetAmount
    /\ ~engCall.result.is_over_budget

\* C8: with F the first tracked month of the transactions, the carry-in of
\* F does not depend on F's own record and transactions, and when the record
\* found for F has rollover disabled the summary of F has the default amount
\* as its budget amount, also when the month before F has a budget record.
C8_FirstTrackedMonth ==
    engCall.op = "calculateBudgetSummary" =>
        \A now \in NowInstants :
            LET F == GetFirstTrackedMonth(engTransactions, now)
                found == FindBudget(engBudgets, F)
            IN  engCall.monthYear = F =>
                    /\ CalculateRolloverAmount(engTransactions, engBudgets, F) =
                           CalculateRolloverAmount(
                               TransactionsOutside(engTransactions, F),
                               BudgetsOutside(engBudgets, F), F)
                    /\ found # 0 /\ ~engBudgets[found].rollover_enabled =>
                           /\ engCall.result.budget_amount = engCall.defaultBudgetAmount
                           /\ engCall.result.remaining_budget =
                                  engCall.defaultBudgetAmount
                                  - engCall.result.total_transactions

C8_Witness ==
    /\ engCall.op = "calculateBudgetSummary"
    /\ Len(engTransactions) > 0
    /\ engCall.monthYear = Dec25
    /\ \A now \in NowInstants : GetFirstTrackedMonth(engTransactions, now) = Dec25
    /\ engBudgets = <<MonthlyBudget(Nov25, 100000, TRUE),
                      MonthlyBudget(Dec25, 100000, FALSE)>>
    /\ engCall.result.budget_amount = engCall.defaultBudgetAmount


\* ----------------------------------------- the claims about the orchestrator

\* the last loadData call that returned went through the outer catch
LoadFellBack == lastLoad.outcome \in {"offline", "failed"}

\* C9: when a remote call of a load fails and the load falls back to a
\* readable cache that holds budget records, the load ends in
\* DegradedFallback and not in a failure: the screen shows the cached
\* transactions, the summary is the engine's for the target month with the
\* stored budget_amount of the cached record of that month as the default
\* amount, the notice is 'Using offline data', and the call wrote nothing to
\* the cache.
C9_RemoteFailureEndsInDegradedFallback ==
    (/\ LoadFellBack
     /\ lastLoad.remoteFailed
     /\ lastLoad.storageReadable
     /\ lastLoad.localBudgets # <<>>)
    => /\ lastLoad.outcome = "offline"
       /\ lastLoad.snackbarMessage = "Using offline data"
       /\ lastLoad.transactions = lastLoad.localTransactions
       /\ FindBudget(lastLoad.localBudgets, lastLoad.currentMonth) # 0
       /\ lastLoad.budgetSummary =
              Some(CalculateBudgetSummary(lastLoad.currentMonth,
                       lastLoad.localTransactions, lastLoad.localBudgets,
                       lastLoad.localBudgets[FindBudget(lastLoad.localBudgets,
                                                        lastLoad.currentMonth)].budget_amount))
       /\ ~lastLoad.storageWritten

\* C10: when the remote fails and the cache read by the fallback is empty
\* or unreadable (both reads return nothing), the load shows 'Failed to
\* load data' and an empty data state: no transactions and no budget
\* summary, and the screen is not left loading.
C10_EmptyCacheEndsInEmptyState ==
    (/\ LoadFellBack
     /\ lastLoad.remoteFailed
     /\ lastLoad.localTransactions = <<>>
     /\ lastLoad.localBudgets = <<>>)
    => /\ lastLoad.snackbarMessage = "Failed to load data"
       /\ lastLoad.transactions = <<>>
       /\ lastLoad.budgetSummary = Null
       /\ lastLoad.isLoading = FALSE

\* ------------------------------------------------ the claims, continued

\* a zero-padded "YYYY-MM": four digits, two digits, a month of the year
WellFormedKey(monthYear) ==
    /\ Len(monthYear.year) = 4
    /\ Len(monthYear.month) = 2
    /\ \A i \in 1..4 : monthYear.year[i] \in 0..9
    /\ \A i \in 1..2 : monthYear.month[i] \in 0..9
    /\ ParseInt(monthYear.month) \in 1..12

\* C20: on every well-formed key k, getPreviousMonth(k) and getNextMonth(k)
\* are well-formed keys of the calendar months before and after k (January
\* rolls back to December of the year before, December forward to January
\* of the year after), each undoes the other, and the copies in
\* MonthNavigation and in BudgetCalculator return the same key.
C20_AdjacentMonthKeys ==
    engCall.op \in {"getPreviousMonth", "getNextMonth"} =>
        LET k == engCall.monthYear
            step == IF engCall.op = "getNextMonth" THEN 1 ELSE 0 - 1
        IN  /\ WellFormedKey(k)
            /\ WellFormedKey(engCall.result)
            /\ MonthIndex(engCall.result) = MonthIndex(k) + step
            /\ engCall.navResult = engCall.result
            /\ (engCall.op = "getPreviousMonth" /\ k.month = <<0, 1>>) =>
                   engCall.result = MonthKey(ToString(ParseInt(k.year) - 1), <<1, 2>>)
            /\ (engCall.op = "getNextMonth" /\ k.month = <<1, 2>>) =>
                   engCall.result = MonthKey(ToString(ParseInt(k.year) + 1), <<0, 1>>)
            /\ CalcGetPreviousMonth(CalcGetNextMonth(k)) = k
            /\ CalcGetNextMonth(CalcGetPreviousMonth(k)) = k
            /\ NavGetPreviousMonth(NavGetNextMonth(k)) = k
            /\ NavGetNextMonth(NavGetPreviousMonth(k)) = k

\* getNextMonth was called on a December and carried into the year digits
C20_Witness ==
    /\ engCall.op = "getNextMonth"
    /\ engCall.monthYear = MonthKey(<<1, 9, 9, 9>>, <<1, 2>>)
    /\ engCall.result = MonthKey(<<2, 0, 0, 0>>, <<0, 1>>)

\* the year of the key a call is made on, and the year of the adjacent
\* month, are both written with four digits and no leading zero
AdjacentYearInRange ==
    LET k == engCall.monthYear
        year == ParseInt(k.year)
        adjacent == IF engCall.op = "getPreviousMonth" /\ ParseInt(k.month) = 1
                    THEN year - 1
                    ELSE IF engCall.op = "getNextMonth" /\ ParseInt(k.month) = 12
                    THEN year + 1
                    ELSE year
    IN  year \in 1000..9999 /\ adjacent \in 1000..9999

\* C20 where the adjacent month's year keeps four digits: it holds
C20_AdjacentMonthKeysWithinFourDigits ==
    (engCall.op \in {"getPreviousMonth", "getNextMonth"} /\ AdjacentYearInRange)
        => C20_AdjacentMonthKeys

\* C21: on every well-formed key k the string order agrees with the order
\* of the months: getPreviousMonth(k) < k < getNextMonth(k) as strings, and
\* the keys returned are zero-padded "YYYY-MM" again
C21_StringOrderIsChronological ==
    /\ engCall.op = "getPreviousMonth" =>
           /\ StringLess(MonthString(engCall.result), MonthString(engCall.monthYear))
           /\ StringLess(MonthString(engCall.navResult), MonthString(engCall.monthYear))
           /\ WellFormedKey(engCall.navResult)
    /\ engCall.op = "getNextMonth" =>
           /\ StringLess(MonthString(engCall.monthYear), MonthString(engCall.result))
           /\ StringLess(MonthString(engCall.monthYear), MonthString(engCall.navResult))
           /\ WellFormedKey(engCall.navResult)

\* C21 where the adjacent month's year keeps four digits: it holds
C21_StringOrderWithinFourDigits ==
    (engCall.op \in {"getPreviousMonth", "getNextMonth"} /\ AdjacentYearInRange)
        => C21_StringOrderIsChronological

\* the records of monthYear in a budgets collection
RecordsOf(budgets, monthYear) ==
    {i \in 1..Len(budgets) : budgets[i].month_year = monthYear}

C16_WitnessDefault ==
    /\ lastLoad.outcome = "success"
    /\ lastLoad.summaryFetch = "notFound"
    /\ lastLoad.created = <<MonthlyBudget(lastLoad.currentMonth, 100000, TRUE)>>

\* C17: a load creates a budget record only when its summary request was
\* answered NotFound; when the summary request failed as RemoteUnavailable
\* (network error or another status) the load makes no createMonthlyBudget
\* call, creates nothing and ends in the cache fallback.
C17_OnlyNotFoundCreates ==
    lastLoad.outcome # "none" =>
        /\ lastLoad.createRequests > 0 => lastLoad.summaryFetch = "notFound"
        /\ lastLoad.summaryFetch \in {"network", "server"} =>
               /\ lastLoad.createRequests = 0
               /\ lastLoad.created = <<>>
               /\ LoadFellBack

\* the load that returned was a remote-path load, all of whose requests were
\* answered, of the month of the oldest transaction
OldestMonthLoaded ==
    /\ lastLoad.outcome = "success"
    /\ ~lastLoad.remoteFailed
    /\ lastLoad.transactionsData # <<>>
    /\ OldestMonth(lastLoad.transactionsData) = lastLoad.currentMonth

\* C11: after a remote-path load of the month of the oldest transaction the
\* month's record on the service has rollover disabled, and so have the
\* budgets fetched and the summary computed by the load, also when the load
\* created the record
C11_OldestMonthRolloverDisabled ==
    OldestMonthLoaded =>
        /\ \A i \in RecordsOf(remoteBudgets, lastLoad.currentMonth) :
               ~remoteBudgets[i].rollover_enabled
        /\ \A i \in RecordsOf(lastLoad.monthlyBudgetsData, lastLoad.currentMonth) :
               ~lastLoad.monthlyBudgetsData[i].rollover_enabled
        /\ ~lastLoad.calculatedSummary[1].rollover_enabled

\* C11, the loads that found the month's record: the claim holds for them
C11_FoundRecordRolloverDisabled ==
    (OldestMonthLoaded /\ lastLoad.summaryFetch = "ok") =>
        /\ \A i \in RecordsOf(remoteBudgets, lastLoad.currentMonth) :
               ~remoteBudgets[i].rollover_enabled
        /\ \A i \in RecordsOf(lastLoad.monthlyBudgetsData, lastLoad.currentMonth) :
               ~lastLoad.monthlyBudgetsData[i].rollover_enabled
        /\ ~lastLoad.calculatedSummary[1].rollover_enabled

\* C15: after a load that ended in Success the cached transactions and
\* monthly budgets are the collections the load fetched and the last-sync
\* instant is recorded; a load that fell back wrote nothing to the cache
C15_SuccessRefreshesCache ==
    /\ lastLoad.outcome = "success" =>
           /\ storageTransactions = Some(lastLoad.transactionsData)
           /\ storageMonthlyBudgets = Some(lastLoad.monthlyBudgetsData)
           /\ storageLastSync = Some(Now)
    /\ LoadFellBack => ~lastLoad.storageWritten

\* C15, the second half alone: a load that fell back wrote nothing to the
\* cache; it holds
C15_FallbackLeavesCache == LoadFellBack => ~lastLoad.storageWritten

\* ------------------------------------- the claims about the mutation flows

LoadsInFlight == {id \in LoadIds : loads[id].pc # "idle"}

\* C14: two loadData calls are never in flight together
C14_NoConcurrentLoads == Cardinality(LoadsInFlight) <= 1

\* C12: after a load that ended on the remote path and fetched at least one
\* transaction, the rollover switch is disabled exactly when the month
\* loaded is the month of the oldest transaction
C12_ControlDisabledIffOldestMonth ==
    (lastLoad.outcome = "success" /\ lastLoad.transactionsData # <<>>) =>
        (lastLoad.isRolloverDisabled
            <=> OldestMonth(lastLoad.transactionsData) = lastLoad.currentMonth)

\* C12 for the loads that found the month's record, in a session where no
\* request and no cache operation has failed, while no other call is in
\* flight: as above, the switch is disabled exactly when the month loaded is
\* the month of the oldest transaction
C12_AnsweredLoadSetsControl ==
    (/\ lastLoad.outcome = "success"
     /\ lastLoad.transactionsData # <<>>
     /\ lastLoad.summaryFetch = "ok"
     /\ ~lastLoad.remoteFailed
     /\ faultsLeft = MaxSessionFaults
     /\ LoadsInFlight = {}) =>
        (lastLoad.isRolloverDisabled
            <=> OldestMonth(lastLoad.transactionsData) = lastLoad.currentMonth)

MutationFlows == {"delete", "create", "update", "budget", "toggle"}

\* C13: a mutation whose remote write failed still wrote to the cache and
\* went on to refresh the screen
C13_CacheWrittenWhenRemoteFails ==
    (lastMutation.flow \in MutationFlows /\ lastMutation.remoteWrite = "failed") =>
        /\ lastMutation.cacheWrite # "none"
        /\ lastMutation.reload

\* C13 for the rollover switch alone: it holds
C13_ToggleWritesCache ==
    (lastMutation.flow = "toggle" /\ lastMutation.remoteWrite = "failed") =>
        /\ lastMutation.cacheWrite # "none"
        /\ lastMutation.reload

\* the submission recorded is one the validation rules reject: an empty
\* name, or an amount that is empty, not a number, not positive, above
\* 999999.99 or with more than two fractional digits
InvalidSubmission ==
    \/ /\ lastMutation.flow \in {"transactionForm", "create", "update"}
       /\ ~ValidateForm(lastMutation.name, lastMutation.text)
    \/ /\ lastMutation.flow = "budget"
       /\ AmountError(lastMutation.text) # ""

\* what the handler did went no further than the form
NothingAttempted ==
    /\ lastMutation.remoteCalls = 0
    /\ lastMutation.remoteWrite = "none"
    /\ lastMutation.cacheWrite = "none"
    /\ ~lastMutation.reload

\* C18: an invalid submission of the transaction form or of the budget form
\* makes no request to the service, no cache write and no reload
C18_InvalidSubmissionMakesNoCall == InvalidSubmission => NothingAttempted

\* C18 for the transaction form alone: it holds
C18_TransactionFormValidates ==
    (InvalidSubmission /\ lastMutation.flow # "budget") =>
        /\ NothingAttempted
        /\ lastMutation.flow = "transactionForm"
        /\ lastMutation.message # ""

\* the budget form was submitted with a text that denotes the amount the
\* month's record holds
SameAmountSubmitted ==
    /\ lastMutation.flow = "budget"
    /\ lastMutation.current # Null
    /\ ParseFloat(lastMutation.text) # <<>>
    /\ ParseFloat(lastMutation.text)[1] = 10 * lastMutation.current[1]

\* C19: a budget update to the amount the record already holds, however the
\* amount is written, shows 'Same Budget amount' and makes no remote write,
\* no cache write and no reload
C19_SameAmountShortCircuits ==
    SameAmountSubmitted =>
        /\ lastMutation.message = "Same Budget amount"
        /\ lastMutation.remoteWrite = "none"
        /\ lastMutation.cacheWrite = "none"
        /\ ~lastMutation.reload

\* C19 for the text with two fractional digits: it holds
C19_TwoDigitTextShortCircuits ==
    (SameAmountSubmitted /\ lastMutation.text = ToFixed2(lastMutation.current[1])) =>
        /\ lastMutation.message = "Same Budget amount"
        /\ lastMutation.remoteWrite = "none"
        /\ lastMutation.cacheWrite = "none"
        /\ ~lastMutation.reload

\* ------------------------------------------- the claims about the engine, continued

RECURSIVE MonthsBack(_, _)
\* the key of the month n months before monthYear
MonthsBack(monthYear, n) ==
    IF n = 0 THEN monthYear ELSE MonthsBack(CalcGetPreviousMonth(monthYear), n - 1)

\* the record found for monthYear has rollover enabled
HasEnabledRecord(budgets, monthYear) ==
    /\ FindBudget(budgets, monthYear) # 0
    /\ budgets[FindBudget(budgets, monthYear)].rollover_enabled

\* the number of consecutive months before monthYear, counted backwards from
\* the month just before it, whose record has rollover enabled
EnabledMonthsBefore(budgets, monthYear) ==
    Cardinality({n \in 1..Len(budgets) :
                    \A j \in 1..n : HasEnabledRecord(budgets, MonthsBack(monthYear, j))})

\* the n months before monthYear form a chain: every record of each of them
\* has rollover enabled and the amount B, none of them has a transaction,
\* and the month before the chain has no record
ChainBefore(txs, budgets, monthYear, n, B) ==
    /\ \A j \in 1..n :
           /\ RecordsOf(budgets, MonthsBack(monthYear, j)) # {}
           /\ \A i \in RecordsOf(budgets, MonthsBack(monthYear, j)) :
                  budgets[i].rollover_enabled /\ budgets[i].budget_amount = B
           /\ GetTransactionsForMonth(txs, MonthsBack(monthYear, j)) = <<>>
    /\ RecordsOf(budgets, MonthsBack(monthYear, n + 1)) = {}

\* C22: after a chain of N months with rollover enabled, budget B and no
\* transactions, with no record before the chain, the carry-in of the next
\* month is N x B; and for every budgets collection, one with two records
\* of the same month included, the recursion returns after as many nested
\* calls as there are consecutive rollover-enabled months with a record
\* just before the month, which is at most the number of records
C22_ChainCarryIn ==
    engCall.op = "calculateRolloverAmount" =>
        /\ \A n \in 1..Len(engBudgets) :
               ChainBefore(engTransactions, engBudgets, engCall.monthYear, n, 100000)
                   => engCall.result = n * 100000
        /\ engCall.calls = EnabledMonthsBefore(engBudgets, engCall.monthYear)
        /\ engCall.calls <= Len(engBudgets)

\* the carry-in of 2026-02 after the chain 2025-11, 2025-12, 2026-01
C22_Witness ==
    /\ engCall.op = "calculateRolloverAmount"
    /\ engCall.monthYear = Feb26
    /\ ChainBefore(engTransactions, engBudgets, Feb26, 3, 100000)
    /\ engCall.calls = 3
    /\ engCall.result = 300000

\* the carry-in after a chain one of whose months has two records
C22_WitnessTwoRecords ==
    /\ engCall.op = "calculateRolloverAmount"
    /\ engCall.monthYear = Feb26
    /\ Cardinality(RecordsOf(engBudgets, Jan26)) = 2
    /\ ChainBefore(engTransactions, engBudgets, Feb26, 1, 100000)
    /\ engCall.result = 100000

\* C23: recalculateWithRolloverChange with the value v gives the same
\* summary when it is applied again with v, to the caller's collection or
\* to the collection already set to v; the caller's collection is as it
\* was, and the collection summarized differs from it in the rollover
\* setting of the records of the month alone
C23_RecalculateIsIdempotent ==
    engCall.op = "recalculateWithRolloverChange" =>
        LET M == engCall.monthYear
            v == engCall.newRolloverEnabled
            d == engCall.defaultBudgetAmount
            copy == engCall.updatedBudgets
        IN  /\ engCall.result =
                   RecalculateWithRolloverChange(M, engTransactions, engCall.budgets, v, d)
            /\ engCall.result = RecalculateWithRolloverChange(M, engTransactions, copy, v, d)
            /\ engCall.result = CalculateBudgetSummary(M, engTransactions, copy, d)
            /\ engCall.budgets = engBudgets
            /\ Len(copy) = Len(engBudgets)
            /\ \A i \in 1..Len(copy) :
                   /\ engBudgets[i].month_year # M => copy[i] = engBudgets[i]
                   /\ engBudgets[i].month_year = M =>
                          copy[i] = [engBudgets[i] EXCEPT !.rollover_enabled = v]

\* rollover of 2025-12 is switched off: the month had a record with
\* rollover enabled and a carry-in of 1000.00 from 2025-11
C23_Witness ==
    /\ engCall.op = "recalculateWithRolloverChange"
    /\ engCall.monthYear = Dec25
    /\ ~engCall.newRolloverEnabled
    /\ engTransactions = <<>>
    /\ engBudgets = <<MonthlyBudget(Nov25, 100000, TRUE), MonthlyBudget(Dec25, 100000, TRUE)>>
    /\ engCall.updatedBudgets # engBudgets
    /\ engCall.result.budget_amount = engCall.defaultBudgetAmount
    /\ ~engCall.result.rollover_enabled

\* the rearrangements of a sequence
Rearrangements(seq) ==
    {[i \in 1..Len(seq) |-> seq[p[i]]] :
         p \in {q \in [1..Len(seq) -> 1..Len(seq)] :
                   \A i, j \in 1..Len(seq) : q[i] = q[j] => i = j}}

\* the month key of an instant
MonthOfInstant(instant) ==
    MonthKey(ToString(GetFullYear(instant)), PadStart2(ToString(GetMonth(instant) + 1)))

\* C24: getFirstTrackedMonth returns the month of the transaction with the
\* smallest timestamp, in whatever order the transactions are given, and
\* the month of Date.now() for an empty collection; the collection passed
\* is not reordered
C24_FirstTrackedMonthIsEarliest ==
    engCall.op = "getFirstTrackedMonth" =>
        /\ engCall.transactions = engTransactions
        /\ engTransactions = <<>> => engCall.result = MonthOfInstant(engCall.now)
        /\ engTransactions # <<>> =>
               /\ \E i \in 1..Len(engTransactions) :
                      /\ \A j \in 1..Len(engTransactions) :
                             engTransactions[i].timestamp <= engTransactions[j].timestamp
                      /\ engCall.result = MonthOfInstant(engTransactions[i].timestamp)
               /\ \A other \in Rearrangements(engTransactions) :
                      GetFirstTrackedMonth(other, engCall.now) = engCall.result

\* the earliest transaction, of 2025-11, is the last of the collection
C24_Witness ==
    /\ engCall.op = "getFirstTrackedMonth"
    /\ Len(engTransactions) = 2
    /\ engTransactions[1].timestamp = FirstInstant(Jan26)
    /\ engTransactions[2].timestamp = LastInstant(Nov25)
    /\ engCall.result = Nov25

\* no transaction: the month of the clock
C24_WitnessEmpty ==
    /\ engCall.op = "getFirstTrackedMonth"
    /\ engTransactions = <<>>
    /\ engCall.now = FirstInstant(Feb26)
    /\ engCall.result = Feb26

C27_WitnessEnabled ==
    /\ engCall.op = "calculateRolloverAmount"
    /\ engCall.monthYear = Jan26
    /\ engBudgets = <<MonthlyBudget(Nov25, 100000, TRUE), MonthlyBudget(Dec25, 100000, TRUE)>>
    /\ engTransactions = <<Transaction(0, 5000, "withdraw", FirstInstant(Dec25))>>
    /\ engCall.result = 195000

\* ------------------------------------ the claims about the orchestrator, continued

\* C25: a loadData call that has started returns, through the remote path
\* or through the fallback, whatever requests and cache operations fail,
\* and when it returns the loading flag and the refreshing flag are cleared
C25_EveryLoadReturns ==
    /\ \A id \in LoadIds :
           (loads[id].pc # "idle") ~> (loads[id].pc = "idle" /\ ~isLoading /\ ~isRefreshing)
    /\ [](lastLoad # NoLoad => ~lastLoad.isLoading)

\* a refresh whose requests and cache reads all failed has returned
C25_Witness ==
    /\ lastLoad # NoLoad
    /\ lastLoad.outcome = "failed"
    /\ lastLoad.remoteFailed
    /\ ~lastLoad.storageReadable
    /\ ~isLoading
    /\ ~isRefreshing
    /\ loadCallsLeft = 0
\* the step is a call of handleToggleRollover made while the oldest
\* transaction of the service is dated in the displayed month
ToggleOnOldestMonth ==
    /\ mutationsLeft' = mutationsLeft - 1
    /\ lastMutation'.flow = "toggle"
    /\ remoteTransactions # <<>>
    /\ OldestMonth(remoteTransactions) = currentMonth

\* C26: a rollover toggle requested while the displayed month is the month of
\* the oldest transaction changes nothing: the budgets in memory, the cached
\* budgets, the displayed summary and the remote budget records stay as they
\* are and no loadData call is started, whether getOldestTransaction is
\* answered or fails.
C26_ToggleOnOldestMonthIsNoOp ==
    [][ToggleOnOldestMonth =>
           UNCHANGED <<monthlyBudgets, storageMonthlyBudgets, budgetSummary,
                       remoteBudgets, transactions, loads, loadCallsLeft>>]_vars

\* the handler was called with the control enabled on the month of the oldest
\* transaction, and returned at line 319
C26_Witness ==
    /\ lastMutation.flow = "toggle"
    /\ lastMutation.remoteCalls = 1
    /\ lastMutation.message = ""
    /\ ~lastMutation.reload
    /\ remoteTransactions # <<>>
    /\ OldestMonth(remoteTransactions) = currentMonth
    /\ budgetSummary # Null

\* --------------------------------------- the claims about the navigator

\* the navigator shows a month between firstTrackedMonth and the month of
\* the device's clock
NavigatorInRange ==
    /\ engCall.op = "monthNavigator"
    /\ engCall.firstTrackedMonth # <<>>
    /\ MonthIndex(engCall.firstTrackedMonth[1]) <= MonthIndex(engCall.currentMonth)
    /\ MonthIndex(engCall.currentMonth) <= MonthIndex(GetCurrentMonthAt(engCall.now))

\* C29: on a navigator that shows a month between firstTrackedMonth and the
\* device's current month, every gesture (previous, next, a swipe, back to
\* current) requests no month or a month m with firstTrackedMonth <= m <=
\* current month; previous and the swipe to the right request nothing at
\* firstTrackedMonth and the month before otherwise, next and the swipe to
\* the left request nothing at the current month and the month after
\* otherwise, and back-to-current requests the current month.
C29_NavigationStaysInTrackedRange ==
    NavigatorInRange =>
        LET shown == MonthIndex(engCall.currentMonth)
            first == MonthIndex(engCall.firstTrackedMonth[1])
            current == MonthIndex(GetCurrentMonthAt(engCall.now))
            request == engCall.request
        IN  /\ request # <<>> =>
                   /\ WellFormedKey(request[1])
                   /\ first <= MonthIndex(request[1])
                   /\ MonthIndex(request[1]) <= current
            /\ engCall.gesture \in {"previous", "swipeRight"} =>
                   IF shown = first THEN request = <<>>
                   ELSE request # <<>> /\ MonthIndex(request[1]) = shown - 1
            /\ engCall.gesture \in {"next", "swipeLeft"} =>
                   IF shown = current THEN request = <<>>
                   ELSE request # <<>> /\ MonthIndex(request[1]) = shown + 1
            /\ engCall.gesture = "swipeShort" => request = <<>>
            /\ engCall.gesture = "backToCurrent" =>
                   IF shown = current THEN request = <<>>
                   ELSE request = <<GetCurrentMonthAt(engCall.now)>>

\* previous is pressed on 2026-01 with 2025-11 the first tracked month: the
\* month requested is 2025-12
C29_Witness ==
    /\ engCall.op = "monthNavigator"
    /\ engCall.gesture = "previous"
    /\ engCall.currentMonth = Jan26
    /\ engCall.firstTrackedMonth = <<Nov25>>
    /\ engCall.request = <<Dec25>>

\* previous is refused on the first tracked month, next on the current one
C29_WitnessRefused ==
    /\ engCall.op = "monthNavigator"
    /\ engCall.gesture \in {"previous", "next"}
    /\ engCall.currentMonth = Feb26
    /\ engCall.firstTrackedMonth = <<Feb26>>
    /\ GetCurrentMonthAt(engCall.now) = Feb26
    /\ engCall.request = <<>>

\* ----------------------- the claims about the orchestrator, concluded

\* no loadData call is suspended, none is about to be started by the effect
\* and no handleMonthChange call is pending
NoLoadInFlight ==
    /\ \A id \in LoadIds : loads[id].pc = "idle"
    /\ ~loadDataClosure.effectPending
    /\ pendingMonthChange = Null

\* C28: whenever no load is in flight, the displayed budget summary is
\* absent or is the summary of the displayed month
\* (budgetSummary.month_year = currentMonth).
C28_SummaryBelongsToDisplayedMonth ==
    NoLoadInFlight =>
        IF budgetSummary = Null THEN TRUE
        ELSE budgetSummary[1].month_year = currentMonth

\* C28 after a load that set the summary itself, on the remote path or
\* from the cache, and was the only one in flight while it ran
C28_LastLoadSetSummary ==
    (/\ NoLoadInFlight
     /\ lastLoad # NoLoad
     /\ lastLoad.outcome # "failed"
     /\ lastLoad.currentMonth = currentMonth)
    => IF budgetSummary = Null THEN FALSE
       ELSE budgetSummary[1].month_year = currentMonth

\* ------------------------------------ the claims about the settings screen

\* the default budget the cache holds (optional)
CachedDefaultBudget == DefaultBudgetValue(StorageGet(storageSettings, TRUE))

\* C30: after updateDefaultBudget has written the new default budget to the
\* service, the settings in the cache hold that value as
\* default_budget_amount.
C30_CacheAgreesAfterUpdate ==
    (lastUpdate.outcome = "updated" /\ updateCall.pc = "idle"
        /\ ~settingsScreen.initPending)
    => CachedDefaultBudget = lastUpdate.defaultBudget

\* what the cache holds when such an update returns and its cache write went
\* through: the settings as they were fetched before the write
C30_UpdateSavesFetchedSettings ==
    [][(/\ updateCall.pc = "updateSetting"
        /\ updateCall'.pc = "idle"
        /\ lastUpdate'.outcome = "updated"
        /\ lastUpdate'.saved)
       => storageSettings' = Some(updateCall.settings)]_vars

====
